---- MODULE Spec2Model ----
(***************************************************************************)
(* A model of the DCPU-16 emulator core (package core): the memory with    *)
(* its protected and memory-mapped regions, and the cycle-stepped          *)
(* interpreter State.StepCycle.  Words are 16 bits wide; the 65,536-word   *)
(* backing store is kept as a sparse function (absent cells read 0).       *)
(***************************************************************************)
EXTENDS Integers, Naturals, Sequences, FiniteSets, TLC

VARIABLES
    \* core.State: the embedded Registers, the Memory Ram (backing store ram,
    \* protected list with protectedNil telling whether the slice is still
    \* nil, mapped list, and bufs, the storage behind the mapped callbacks)
    \* and the interpreter scratch lastError, step, cycleCost, op, a, b,
    \* delayed, address
    state,
    \* observation: the most recent call with its arguments and result,
    \* the number of calls made, and the instruction StepCycle is working on
    call, ncalls, insn,
    \* dcpu.Machine around the State: its channels and cycle counter, the
    \* Video and the Keyboard, and where the main thread and the driver
    \* goroutine stand
    machine,
    \* the ClockRate behind the -rate flag
    requestedRate,
    \* skipInstruction: where its loop stands, with its locals count and cost
    scan

vars == <<state, call, ncalls, insn, machine, requestedRate, scan>>

(***************************************************************************)
(* Words and errors                                                        *)
(***************************************************************************)
WordSize == 65536

Word(x) == x % WordSize

NoError == [kind |-> "nil", arg |-> 0]
ErrOutOfBounds == [kind |-> "ErrOutOfBounds", arg |-> 0]
ProtectionError(addr) == [kind |-> "ProtectionError", arg |-> addr]
OpcodeError(o) == [kind |-> "OpcodeError", arg |-> o]
HaltError == [kind |-> "HaltError", arg |-> 0]
ErrMapConflict == [kind |-> "MapRegion: conflict", arg |-> 0]
ErrNoRegion == [kind |-> "UnmapRegion: no match", arg |-> 0]
CallbackError(off) == [kind |-> "CallbackError", arg |-> off]

(***************************************************************************)
(* Sparse word arrays: a cell that is absent from the domain holds 0.      *)
(***************************************************************************)
CellGet(f, i) == IF i \in DOMAIN f THEN f[i] ELSE 0

CellSet(f, i, v) ==
    [x \in (IF v = 0 THEN DOMAIN f \ {i} ELSE DOMAIN f \cup {i}) |->
        IF x = i THEN v ELSE f[x]]

EmptyCells == [x \in {} |-> 0]

(***************************************************************************)
(* Regions                                                                 *)
(***************************************************************************)
Region(start, length) == [Start |-> start, Length |-> length]

End(r) == Word(r.Start + r.Length)

Contains(r, addr) == addr >= r.Start /\ addr < Word(r.Start + r.Length)

Union(r, r2) ==
    LET s0 == IF r2.Start < r.Start THEN r2.Start ELSE r.Start
    IN  IF End(r2) > End(r)
        THEN Region(s0, Word(End(r2) - s0 + WordSize))
        ELSE Region(s0, Word(End(r) - s0 + WordSize))

RemoveAt(s, i) == [k \in 1..(Len(s) - 1) |-> IF k < i THEN s[k] ELSE s[k + 1]]

InsertAt(s, i, e) ==
    [k \in 1..(Len(s) + 1) |-> IF k < i THEN s[k] ELSE IF k = i THEN e ELSE s[k - 1]]

\* copy(s[i:], s[i+1:]) without reslicing: the length stays, the tail shifts down
CopyDown(s, i) == [k \in 1..Len(s) |-> IF k < i \/ k = Len(s) THEN s[k] ELSE s[k + 1]]

(***************************************************************************)
(* Memory.  A memory value is the record [ram, protected, protectedNil,    *)
(* mapped, bufs].  A mapped region carries dev, the identity of its        *)
(* callback pair: get(off) reads bufs[dev] at off; set(off, v) writes it   *)
(* when dev is writable and returns an error otherwise.  The devices are   *)
(* a writable buffer and a read-only one, and the two peripherals of the   *)
(* Machine, whose bufs are Video.words and Keyboard.words.                 *)
(***************************************************************************)
TestDevices == {"buf", "rom"}
Peripherals == {"video", "keyboard"}
Devices == TestDevices \cup Peripherals

MMIORegion(start, length, d) == [Start |-> start, Length |-> length, dev |-> d]

DevGet(m, d, off) == CellGet(m.bufs[d], off)

DevSet(m, d, off, v) ==
    IF d = "rom"
    THEN [m |-> m, err |-> CallbackError(off)]
    ELSE [m |-> [m EXCEPT !.bufs[d] = CellSet(@, off, v)], err |-> NoError]

\* index of the first mapped region that Contains offset, 0 if none
MappedIndex(m, offset) ==
    LET hits == {i \in 1..Len(m.mapped) : Contains(m.mapped[i], offset)}
    IN  IF hits = {} THEN 0 ELSE CHOOSE i \in hits : \A j \in hits : i <= j

\* Load once the mapped list is searched: i is the region found, 0 if none
LoadAt(m, offset, i) ==
    IF i # 0
    THEN DevGet(m, m.mapped[i].dev, Word(offset - m.mapped[i].Start + WordSize))
    ELSE IF offset \in DOMAIN m.ram THEN m.ram[offset] ELSE m.fill

Load(m, offset) == LoadAt(m, offset, MappedIndex(m, offset))

RECURSIVE ProtectedScan(_, _, _)
\* the scan of Store over the protected list, with its early exit
ProtectedScan(p, i, offset) ==
    IF i > Len(p) THEN FALSE
    ELSE IF Contains(p[i], offset) THEN TRUE
    ELSE IF p[i].Start > offset THEN FALSE
    ELSE ProtectedScan(p, i + 1, offset)

\* Store once the mapped list is searched: i is the region found, 0 if none
StoreAt(m, offset, value, i) ==
    IF i # 0
    THEN DevSet(m, m.mapped[i].dev, Word(offset - m.mapped[i].Start + WordSize), value)
    ELSE IF ProtectedScan(m.protected, 1, offset)
    THEN [m |-> m, err |-> ProtectionError(offset)]
    ELSE [m |-> [m EXCEPT !.ram = CellSet(@, offset, value)], err |-> NoError]

Store(m, offset, value) == StoreAt(m, offset, value, MappedIndex(m, offset))

RECURSIVE MapScan(_, _, _, _)
\* TRUE when the scan of MapRegion reports a conflict
MapScan(p, i, start, length) ==
    IF i > Len(p) THEN FALSE
    ELSE IF Contains(p[i], start) \/ Contains(p[i], length) THEN TRUE
    ELSE IF p[i].Start > Word(start + length) THEN FALSE
    ELSE MapScan(p, i + 1, start, length)

MapRegion(m, start, length, d) ==
    IF start + length > WordSize
    THEN [m |-> m, err |-> ErrOutOfBounds]
    ELSE IF MapScan(m.mapped, 1, start, length)
    THEN [m |-> m, err |-> ErrMapConflict]
    ELSE [m |-> [m EXCEPT !.mapped = Append(@, MMIORegion(start, length, d))],
          err |-> NoError]

RECURSIVE UnmapScan(_, _, _, _)
\* the index UnmapRegion settles on, 0 when it gives up
UnmapScan(p, i, start, length) ==
    IF i > Len(p) THEN 0
    ELSE IF p[i].Start = start /\ p[i].Length = length THEN i
    ELSE IF p[i].Start > start THEN 0
    ELSE UnmapScan(p, i + 1, start, length)

UnmapRegion(m, start, length) ==
    IF start + length > WordSize
    THEN [m |-> m, err |-> ErrOutOfBounds]
    ELSE LET i == UnmapScan(m.mapped, 1, start, length)
         IN  IF i # 0
             THEN [m |-> [m EXCEPT !.mapped = CopyDown(@, i)], err |-> NoError]
             ELSE [m |-> m, err |-> ErrNoRegion]

RECURSIVE ProtectLoop(_, _, _, _)
ProtectLoop(p, i, offset, length) ==
    IF i > Len(p) THEN p
    ELSE IF p[i].Start > Word(offset + length)
    THEN InsertAt(p, i, Region(offset, length))
    ELSE IF End(p[i]) > offset
    THEN IF i + 1 <= Len(p) /\ p[i + 1].Start < Word(offset + length)
         THEN RemoveAt([p EXCEPT ![i].Length = Word(End(p[i + 1]) - p[i].Start + WordSize)],
                       i + 1)
         ELSE [p EXCEPT ![i] = Union(p[i], Region(offset, length))]
    ELSE ProtectLoop(p, i + 1, offset, length)

RECURSIVE UnprotectLoop(_, _, _, _)
UnprotectLoop(p, i, offset, length) ==
    IF i > Len(p) THEN p
    ELSE IF p[i].Start > Word(offset + length) THEN p
    ELSE IF End(p[i]) > offset
    THEN IF p[i].Start >= offset
         THEN IF ~Contains(p[i], Word(offset + length))
              THEN UnprotectLoop(RemoveAt(p, i), i + 1, offset, length)
              ELSE UnprotectLoop(
                       [p EXCEPT ![i] = Region(Word(offset + length),
                                               Word(End(p[i]) - Word(offset + length) + WordSize))],
                       i + 1, offset, length)
         ELSE UnprotectLoop([p EXCEPT ![i].Length = offset - p[i].Start],
                            i + 1, offset, length)
    ELSE UnprotectLoop(p, i + 1, offset, length)

MemProtectKeeping(m, offset, length, prot) ==
    IF offset + length > WordSize
    THEN [m |-> m, err |-> ErrOutOfBounds]
    ELSE IF prot
    THEN IF m.protectedNil
         THEN [m |-> [m EXCEPT !.protected = <<Region(offset, length)>>,
                               !.protectedNil = FALSE],
               err |-> NoError]
         ELSE [m |-> [m EXCEPT !.protected = ProtectLoop(@, 1, offset, length)],
               err |-> NoError]
    ELSE [m |-> m, err |-> NoError]

MemProtect(m, offset, length, prot) ==
    IF offset + length > WordSize
    THEN [m |-> m, err |-> ErrOutOfBounds]
    ELSE IF prot
    THEN IF m.protectedNil
         THEN [m |-> [m EXCEPT !.protected = <<Region(offset, length)>>,
                               !.protectedNil = FALSE],
               err |-> NoError]
         ELSE [m |-> [m EXCEPT !.protected = ProtectLoop(@, 1, offset, length)],
               err |-> NoError]
    ELSE IF ~m.protectedNil
    THEN [m |-> [m EXCEPT !.protected = UnprotectLoop(@, 1, offset, length)],
          err |-> NoError]
    ELSE [m |-> m, err |-> NoError]

(***************************************************************************)
(* Registers and opcodes                                                   *)
(***************************************************************************)
registerA == 0
registerB == 1
registerC == 2
registerX == 3
registerY == 4
registerZ == 5
registerI == 6
registerJ == 7
registerSP == 8
registerPC == 9
registerEX == 10
registerIA == 11
registerCount == 12

stateStepFetch == 0
stateStepDecodeA == 1
stateStepDecodeB == 2
stateStepExecute == 3

addressTypeNone == 0
addressTypeRegister == 1
addressTypeMemory == 2

Address(t, i) == [addressType |-> t, index |-> i]
AddressNone == Address(addressTypeNone, 0)

opcodeSET == 1
opcodeADD == 2
opcodeSUB == 3
opcodeMUL == 4
opcodeMLI == 5
opcodeDIV == 6
opcodeDVI == 7
opcodeMOD == 8
opcodeAND == 9
opcodeBOR == 10
opcodeXOR == 11
opcodeSHR == 12
opcodeASR == 13
opcodeSHL == 14
opcodeSTI == 15
opcodeIFB == 16
opcodeIFC == 17
opcodeIFE == 18
opcodeIFN == 19
opcodeIFG == 20
opcodeIFA == 21
opcodeIFL == 22
opcodeIFU == 23
opcodeADX == 26
opcodeSBX == 27
opcodeExtendedOffset == 256
opcodeExtJSR == 257
opcodeExtHCF == 263
opcodeExtINT == 264
opcodeExtIAG == 265
opcodeExtIAS == 266
opcodeExtHWN == 272
opcodeExtHWQ == 273
opcodeExtHWI == 274

operandA == 0
operandPushPop == 24
operandPC == 28
operandPeek == 25
operandNextWordAddress == 30
operandNextWord == 31

(***************************************************************************)
(* Machine arithmetic.  A 32-bit intermediate (uint32 or int32) is kept as *)
(* its two 16-bit halves [hi, lo].                                         *)
(***************************************************************************)
\* the low 16 bits of a (possibly negative) integer
ToWord(x) == ((x % WordSize) + WordSize) % WordSize

\* the value of a 16-bit pattern read as a two's-complement number
Int16(x) == IF Word(x) >= 32768 THEN Word(x) - WordSize ELSE Word(x)

Abs(x) == IF x < 0 THEN 0 - x ELSE x

FloorDiv(x, d) == IF x >= 0 THEN x \div d ELSE 0 - ((Abs(x) + d - 1) \div d)

\* Go's integer division truncates toward zero
TruncDiv(x, y) ==
    IF (x < 0) = (y < 0) THEN Abs(x) \div Abs(y) ELSE 0 - (Abs(x) \div Abs(y))

RECURSIVE Pow2(_)
Pow2(n) == IF n = 0 THEN 1 ELSE 2 * Pow2(n - 1)

\* the 32-bit pattern of an integer of small magnitude
U32(x) == [hi |-> ToWord(FloorDiv(x, WordSize)), lo |-> ToWord(x)]

IsNeg32(r) == r.hi >= 32768

Neg32(r) ==
    IF r.lo = 0 THEN [hi |-> ToWord(0 - r.hi), lo |-> 0]
    ELSE [hi |-> ToWord(0 - r.hi - 1), lo |-> WordSize - r.lo]

\* the 32-bit product of two words
Mul32(x, y) ==
    LET p1 == x * (y % 256)
        p2 == x * (y \div 256)
        low == (p2 % 256) * 256 + p1
    IN  [hi |-> Word((p2 \div 256) + (low \div WordSize)), lo |-> Word(low)]

\* uint32 shifts; a count of 32 or more shifts everything out
Shl32(r, n) ==
    IF n >= 32 THEN [hi |-> 0, lo |-> 0]
    ELSE IF n >= 16 THEN [hi |-> (r.lo % Pow2(32 - n)) * Pow2(n - 16), lo |-> 0]
    ELSE [hi |-> (r.hi % Pow2(16 - n)) * Pow2(n) + (r.lo \div Pow2(16 - n)),
          lo |-> (r.lo % Pow2(16 - n)) * Pow2(n)]

Shr32(r, n) ==
    IF n >= 32 THEN [hi |-> 0, lo |-> 0]
    ELSE IF n >= 16 THEN [hi |-> 0, lo |-> r.hi \div Pow2(n - 16)]
    ELSE [hi |-> r.hi \div Pow2(n),
          lo |-> (r.lo \div Pow2(n)) + (r.hi % Pow2(n)) * Pow2(16 - n)]

\* int32 shift right: the sign bit fills
Sar32(r, n) ==
    LET fill == IF IsNeg32(r) THEN WordSize - 1 ELSE 0
    IN  IF n >= 32 THEN [hi |-> fill, lo |-> fill]
        ELSE IF n >= 16
        THEN [hi |-> fill, lo |-> ToWord(FloorDiv(Int16(r.hi), Pow2(n - 16)))]
        ELSE [hi |-> ToWord(FloorDiv(Int16(r.hi), Pow2(n))),
              lo |-> (r.lo \div Pow2(n)) + (r.hi % Pow2(n)) * Pow2(16 - n)]

\* uint32 / d for a divisor 0 < d < 2^16, by long division on bytes
Div32(r, d) ==
    LET c3 == r.hi \div 256
        c2 == (c3 % d) * 256 + (r.hi % 256)
        c1 == (c2 % d) * 256 + (r.lo \div 256)
        c0 == (c1 % d) * 256 + (r.lo % 256)
    IN  [hi |-> Word((c3 \div d) * 256 + (c2 \div d)),
         lo |-> Word((c1 \div d) * 256 + (c0 \div d))]

\* int32 / d for a divisor 0 < d < 2^16, truncating toward zero
SDiv32(r, d) == IF IsNeg32(r) THEN Neg32(Div32(Neg32(r), d)) ELSE Div32(r, d)

RECURSIVE BitAnd(_, _)
BitAnd(x, y) ==
    IF x = 0 \/ y = 0 THEN 0
    ELSE 2 * BitAnd(x \div 2, y \div 2) + (IF x % 2 = 1 /\ y % 2 = 1 THEN 1 ELSE 0)

RECURSIVE BitOr(_, _)
BitOr(x, y) ==
    IF x = 0 THEN y ELSE IF y = 0 THEN x
    ELSE 2 * BitOr(x \div 2, y \div 2) + (IF x % 2 = 1 \/ y % 2 = 1 THEN 1 ELSE 0)

RECURSIVE BitXor(_, _)
BitXor(x, y) ==
    IF x = 0 THEN y ELSE IF y = 0 THEN x
    ELSE 2 * BitXor(x \div 2, y \div 2) + (IF x % 2 # y % 2 THEN 1 ELSE 0)

(***************************************************************************)
(* Decoding                                                                *)
(***************************************************************************)
decodeOpcode(value) ==
    LET ooooo == value % 32
        bbbbb == (value \div 32) % 32
        aaaaaa == (value \div 1024) % 64
    IN  IF ooooo = 0
        THEN [op |-> bbbbb + opcodeExtendedOffset, a |-> aaaaaa, b |-> 0]
        ELSE [op |-> ooooo, a |-> aaaaaa, b |-> bbbbb]

cycleCostMap ==
    [o \in {opcodeSET, opcodeAND, opcodeBOR, opcodeXOR, opcodeExtIAG, opcodeExtIAS} |-> 1]
    @@ [o \in {opcodeADD, opcodeSUB, opcodeMUL, opcodeMLI, opcodeSHR, opcodeASR,
               opcodeSHL, opcodeSTI, opcodeIFB, opcodeIFC, opcodeIFE, opcodeIFN,
               opcodeIFG, opcodeIFA, opcodeIFL, opcodeIFU, opcodeExtHWN} |-> 2]
    @@ [o \in {opcodeDIV, opcodeDVI, opcodeMOD, opcodeADX, opcodeSBX, opcodeExtJSR} |-> 3]
    @@ [o \in {opcodeExtINT, opcodeExtHWQ, opcodeExtHWI} |-> 4]
    @@ [o \in {opcodeExtHCF} |-> 9]

\* a cycleCost that lets every opcode through at one cycle
cycleCostLenient(opcode) ==
    IF opcode \in DOMAIN cycleCostMap
    THEN [cost |-> cycleCostMap[opcode], err |-> NoError]
    ELSE [cost |-> 1, err |-> NoError]

cycleCost(opcode) ==
    IF opcode \in DOMAIN cycleCostMap
    THEN [cost |-> cycleCostMap[opcode], err |-> NoError]
    ELSE [cost |-> 0, err |-> OpcodeError(opcode)]

operandCount(operand) ==
    IF (operand >= 16 /\ operand <= 23) \/ operand = 30 \/ operand = 31 THEN 1 ELSE 0

instructionLength(opcode) ==
    LET d == decodeOpcode(opcode)
    IN  1 + operandCount(d.a)
          + (IF d.op < opcodeExtendedOffset THEN operandCount(d.b) ELSE 0)

(***************************************************************************)
(* The interpreter.  S is a State record.  Operators that can fail return  *)
(* [S |-> the state afterwards, err |-> the error returned].               *)
(***************************************************************************)
Ret(S, err) == [S |-> S, err |-> err]

SetReg(S, r, v) == [S EXCEPT !.Registers[r] = ToWord(v)]

PC(S) == S.Registers[registerPC]
SP(S) == S.Registers[registerSP]
EX(S) == S.Registers[registerEX]
IA(S) == S.Registers[registerIA]

IncrPC(S) == SetReg(S, registerPC, PC(S) + 1)
IncrSP(S) == SetReg(S, registerSP, SP(S) + 1)
\* a decrement that stops at 0
DecrSPStopped(S) == IF SP(S) = 0 THEN S ELSE SetReg(S, registerSP, SP(S) - 1)

DecrSP(S) == SetReg(S, registerSP, SP(S) - 1)

\* nextWord returns [PC++]
nextWord(S) == [S |-> IncrPC(S), val |-> Load(S.Ram, PC(S))]

loadAddress(S, address) ==
    IF address.addressType = addressTypeRegister THEN S.Registers[address.index]
    ELSE IF address.addressType = addressTypeMemory THEN Load(S.Ram, address.index)
    ELSE 0

\* the state after s.Ram.Store returned r
Stored(S, r) == Ret([S EXCEPT !.Ram = r.m], r.err)

\* a storeAddress that takes every address that is not a register for memory
storeAddressAnywhere(S, address, value) ==
    IF address.addressType = addressTypeRegister
    THEN Ret(SetReg(S, address.index, value), NoError)
    ELSE Stored(S, Store(S.Ram, address.index, value))

storeAddress(S, address, value) ==
    IF address.addressType = addressTypeRegister
    THEN Ret(SetReg(S, address.index, value), NoError)
    ELSE IF address.addressType = addressTypeMemory
    THEN Stored(S, Store(S.Ram, address.index, value))
    ELSE Ret(S, NoError)

\* the three ways fetchOperand ends
OperandAt(S, address) ==
    [S |-> S, val |-> loadAddress(S, address), address |-> address, delay |-> FALSE]
OperandLiteral(S, v) ==
    [S |-> S, val |-> v, address |-> AddressNone, delay |-> FALSE]
OperandDelay(S) ==
    [S |-> S, val |-> 0, address |-> AddressNone, delay |-> TRUE]

\* an operand addressed through the next word w: [base + next word]
OperandIndexed(w, base) ==
    OperandAt(w.S, Address(addressTypeMemory, Word(w.val + base)))

\* the next word w as a literal
OperandWord(w) == OperandLiteral(w.S, w.val)

\* PUSH / [--SP], on the state with SP already decremented
OperandPush(S) == OperandAt(S, Address(addressTypeMemory, SP(S)))

fetchOperand(S, operand, loadWord, isB) ==
    IF operand <= 7
    THEN OperandAt(S, Address(addressTypeRegister, operand))
    ELSE IF operand <= 15
    THEN OperandAt(S, Address(addressTypeMemory, S.Registers[operand - 8]))
    ELSE IF operand <= 23
    THEN IF loadWord
         THEN OperandIndexed(nextWord(S), S.Registers[operand - 16])
         ELSE OperandDelay(S)
    ELSE IF operand = operandPushPop
    THEN IF isB
         THEN OperandPush(DecrSP(S))
         ELSE OperandAt(IncrSP(S), Address(addressTypeMemory, SP(S)))
    ELSE IF operand = 25
    THEN OperandAt(S, Address(addressTypeMemory, SP(S)))
    ELSE IF operand = 26
    THEN IF loadWord
         THEN OperandIndexed(nextWord(S), SP(S))
         ELSE OperandDelay(S)
    ELSE IF operand <= 29
    THEN OperandAt(S, Address(addressTypeRegister, operand - 27 + registerSP))
    ELSE IF operand = 30
    THEN IF loadWord
         THEN OperandIndexed(nextWord(S), 0)
         ELSE OperandDelay(S)
    ELSE IF operand = 31
    THEN IF loadWord
         THEN OperandWord(nextWord(S))
         ELSE OperandDelay(S)
    ELSE OperandLiteral(S, ToWord(operand - 33))

RECURSIVE skipLoop(_, _, _)
\* the scan of skipInstruction: the words and the instructions of the chain
skipLoop(S, count, cost) ==
    LET opcode == Load(S.Ram, Word(PC(S) + count))
        count1 == Word(count + instructionLength(opcode))
        o == decodeOpcode(opcode).op
    IN  IF o >= opcodeIFB /\ o <= opcodeIFU
        THEN skipLoop(S, count1, cost + 1)
        ELSE [count |-> count1, cost |-> cost + 1]

\* skipInstruction sets up the state to execute SET PC, a
skipInstruction(S) ==
    LET r == skipLoop(S, 0, 0)
    IN  [S EXCEPT !.op = opcodeSET,
                  !.a = Word(PC(S) + r.count),
                  !.address = Address(addressTypeRegister, registerPC),
                  !.cycleCost = r.cost]

\* a StepCycle that returns the error without recording it
LatchForgotten(S, err) == S

\* once set, lastError is returned always
Latch(S, err) == [S EXCEPT !.lastError = err]

\* the end of StepCycle, r being what storeAddress returned
Stepped(r) ==
    IF r.err # NoError
    THEN Ret(Latch(r.S, r.err), r.err)
    ELSE Ret([r.S EXCEPT !.step = stateStepFetch], NoError)

\* the end of StepCycle: storeAddress, then back to fetch
WriteBack(S, val) == Stepped(storeAddress(S, S.address, val))

\* what the switch on s.op leaves: the state and val, or (out) the error
\* StepCycle returns from inside the switch
Val(S, val) == [S |-> S, val |-> val, out |-> FALSE, err |-> NoError]

Out(S, err) == [S |-> S, val |-> 0, out |-> TRUE, err |-> err]

\* a 32-bit result: the low word is stored, the high word goes to EX
WithEXKept(S, val, ex) == Val(S, ToWord(val))

WithEX(S, val, ex) == Val(SetReg(S, registerEX, ex), ToWord(val))

CarryLost(S, result) == WithEX(S, result.lo, 0)

Carry(S, result) == WithEX(S, result.lo, result.hi)

\* SHR and ASR: the high word is stored, the low word goes to EX
Shifted(S, result) == WithEX(S, result.hi, result.lo)

IfTest(S) ==
    IF S.op = opcodeIFB THEN BitAnd(S.b, S.a) # 0
    ELSE IF S.op = opcodeIFC THEN BitAnd(S.b, S.a) = 0
    ELSE IF S.op = opcodeIFE THEN S.b = S.a
    ELSE IF S.op = opcodeIFN THEN S.b # S.a
    ELSE IF S.op = opcodeIFG THEN S.b > S.a
    ELSE IF S.op = opcodeIFA THEN Int16(S.b) > Int16(S.a)
    ELSE IF S.op = opcodeIFL THEN S.b < S.a
    ELSE Int16(S.b) < Int16(S.a)

RECURSIVE StepCycle(_)

\* the nested StepCycle of opcodeExtINT: SET bOperand, aOperand at no cost
NestedSET(S, bOperand, aOperand) ==
    StepCycle([S EXCEPT !.op = opcodeSET, !.b = bOperand, !.a = aOperand,
                        !.cycleCost = 0, !.step = stateStepDecodeA])

\* SET A, message; SET PC, IA
Interrupted(S, message) ==
    Val([S EXCEPT !.Registers[registerA] = message, !.Registers[registerPC] = IA(S),
                  !.address = AddressNone], 0)

\* after SET PUSH, A returned r
PushedA(r, message) ==
    IF r.err # NoError THEN Out(r.S, r.err) ELSE Interrupted(r.S, Word(message))

\* after SET PUSH, PC returned r
PushedPC(r, message) ==
    IF r.err # NoError
    THEN Out(r.S, r.err)
    ELSE PushedA(NestedSET(r.S, operandPushPop, operandA), message)

\* an INT that pushes A twice and never the PC
ExecuteINTNoPC(S) == PushedPC(NestedSET(S, operandPushPop, operandA), S.a)

ExecuteINT(S) == PushedPC(NestedSET(S, operandPushPop, operandPC), S.a)

\* STI: I and J are incremented
Stepped2(S) ==
    [S EXCEPT !.Registers[registerI] = Word(@ + 1), !.Registers[registerJ] = Word(@ + 1)]

\* a JSR that reads the PC it pushes after setting it
JumpFirst(S, target) ==
    Val([S EXCEPT !.address = Address(addressTypeMemory, SP(S)),
                  !.Registers[registerPC] = target], target)

\* JSR: PUSH the PC, on the state with SP already decremented
Jump(S, target) ==
    Val([S EXCEPT !.address = Address(addressTypeMemory, SP(S)),
                  !.Registers[registerPC] = target], PC(S))

\* the switch on s.op, entered when the instruction's cycles are spent
Switch(S) ==
    CASE S.op = opcodeSET -> Val(S, Word(S.a))
      [] S.op = opcodeADD -> Carry(S, U32(S.b + S.a))
      [] S.op = opcodeSUB -> Carry(S, U32(S.b - S.a))
      [] S.op = opcodeMUL -> Carry(S, Mul32(S.b, S.a))
      [] S.op = opcodeMLI -> Carry(S, Mul32(S.b, S.a))
      [] S.op = opcodeDIV ->
            IF S.a = 0 THEN WithEX(S, 0, 0)
            ELSE WithEX(S, S.b \div S.a, Div32(Shl32(U32(S.b), 16), S.a).lo)
      [] S.op = opcodeDVI ->
            IF S.a = 0 THEN WithEX(S, 0, 0)
            ELSE WithEX(S, TruncDiv(Int16(S.b), Int16(S.a)),
                        SDiv32(Shl32(U32(S.b), 16), S.a).lo)
      [] S.op = opcodeMOD ->
            IF S.a = 0 THEN Val(S, 0) ELSE Val(S, Word(S.b % S.a))
      [] S.op = opcodeAND -> Val(S, Word(BitAnd(S.b, S.a)))
      [] S.op = opcodeBOR -> Val(S, Word(BitOr(S.b, S.a)))
      [] S.op = opcodeXOR -> Val(S, Word(BitXor(S.b, S.a)))
      [] S.op = opcodeSHR -> Shifted(S, Shr32(Shl32(U32(S.b), 16), S.a))
      [] S.op = opcodeASR -> Shifted(S, Sar32(Shl32(U32(S.b), 16), S.a))
      [] S.op = opcodeSHL -> Carry(S, Shl32(U32(S.a), S.b))
      [] S.op = opcodeSTI -> Val(Stepped2(S), Word(S.a))
      [] S.op >= opcodeIFB /\ S.op <= opcodeIFU ->
            IF ~IfTest(S)
            THEN Out(skipInstruction(S), NoError)
            ELSE Val([S EXCEPT !.address = AddressNone], 0)
      [] S.op = opcodeADX ->
            Carry(S, U32(S.b + S.a + EX(S)))
      [] S.op = opcodeSBX ->
            Carry(S, U32(S.b - S.a + EX(S)))
      [] S.op = opcodeExtJSR -> Jump(DecrSP(S), Word(S.a))
      [] S.op = opcodeExtHCF -> Out(Latch(S, HaltError), HaltError)
      [] S.op = opcodeExtINT -> ExecuteINT(S)
      [] S.op = opcodeExtIAG -> Val(S, IA(S))
      [] S.op = opcodeExtIAS ->
            Val([S EXCEPT !.address = Address(addressTypeRegister, registerIA)],
                Word(S.a))
      [] S.op = opcodeExtHWN -> Val(S, 0)
      [] S.op = opcodeExtHWQ ->
            Val([S EXCEPT !.Registers =
                    [r \in DOMAIN @ |-> IF r \in {registerA, registerB, registerC,
                                                 registerX, registerY}
                                        THEN 0 ELSE @[r]],
                          !.address = AddressNone], 0)
      [] S.op = opcodeExtHWI -> Val([S EXCEPT !.address = AddressNone], 0)
      [] OTHER -> Out(S, [kind |-> "panic", arg |-> S.op])

\* after the switch: return at once, or store val and go back to fetch
Switched(x) == IF x.out THEN Ret(x.S, x.err) ELSE WriteBack(x.S, x.val)

ExecuteOp(S) == Switched(Switch(S))

\* an execute step that does not wait for the instruction's cycles
ExecuteAtOnce(S) == ExecuteOp(S)

\* case stateStepExecute
\* an Execute that sets EX while the instruction still has cycles to wait
ExecuteEarly(S) ==
    IF S.cycleCost > 1
    THEN Ret([SetReg(S, registerEX, 1) EXCEPT !.cycleCost = @ - 1], NoError)
    ELSE ExecuteOp(S)

Execute(S) ==
    IF S.cycleCost > 1
    THEN Ret([S EXCEPT !.cycleCost = @ - 1], NoError)
    ELSE ExecuteOp(S)

\* case stateStepDecodeB, f being what fetchOperand returned
\* a decode of b that does not make b's address the write-back target
DecodedBNoTarget(f) ==
    IF f.delay
    THEN Ret([f.S EXCEPT !.delayed = TRUE], NoError)
    ELSE Execute([f.S EXCEPT !.delayed = FALSE, !.b = f.val, !.step = stateStepExecute])

DecodedB(f) ==
    IF f.delay
    THEN Ret([f.S EXCEPT !.delayed = TRUE], NoError)
    ELSE Execute([f.S EXCEPT !.delayed = FALSE, !.b = f.val, !.address = f.address,
                             !.step = stateStepExecute])

DecodeB(S) == DecodedB(fetchOperand(S, S.b, S.delayed, TRUE))

\* case stateStepDecodeA, f being what fetchOperand returned; it falls
\* through into case stateStepDecodeB
DecodedA(f) ==
    IF f.delay
    THEN Ret([f.S EXCEPT !.delayed = TRUE], NoError)
    ELSE DecodeB(IF f.S.op >= opcodeExtendedOffset
                 THEN [f.S EXCEPT !.delayed = FALSE, !.a = f.val, !.address = f.address,
                                  !.step = stateStepExecute]
                 ELSE [f.S EXCEPT !.delayed = FALSE, !.a = f.val,
                                  !.step = stateStepDecodeB])

DecodeA(S) == DecodedA(fetchOperand(S, S.a, S.delayed, FALSE))

\* case stateStepFetch, c being what cycleCost returned
Costed(S, c) ==
    IF c.err # NoError
    THEN Ret(Latch(S, c.err), c.err)
    ELSE DecodeA([S EXCEPT !.cycleCost = c.cost, !.address = AddressNone,
                           !.delayed = FALSE, !.step = stateStepDecodeA])

\* s.op, s.a, s.b = decodeOpcode(opcode)
Decoded(S, d) == Costed([S EXCEPT !.op = d.op, !.a = d.a, !.b = d.b], cycleCost(d.op))

Fetched(w) == Decoded(w.S, decodeOpcode(w.val))

Fetch(S) == Fetched(nextWord(S))

StepCycle(S) ==
    IF S.lastError # NoError THEN Ret(S, S.lastError)
    ELSE IF S.step = stateStepFetch THEN Fetch(S)
    ELSE IF S.step = stateStepDecodeA THEN DecodeA(S)
    ELSE IF S.step = stateStepDecodeB THEN DecodeB(S)
    ELSE Execute(S)

(***************************************************************************)
(* Initial states                                                          *)
(***************************************************************************)
\* no skipInstruction is running
NoScan == [at |-> "none", count |-> 0, cost |-> 0]

\* ram holds the words that were given a value; every other word of the
\* backing store holds fill
EmptyMemory ==
    [ram |-> EmptyCells, fill |-> 0, protected |-> <<>>, protectedNil |-> TRUE,
     mapped |-> <<>>, bufs |-> [d \in Devices |-> EmptyCells]]

ZeroRegisters == [r \in 0..(registerCount - 1) |-> 0]

\* new(State)
NewState ==
    [Registers |-> ZeroRegisters, Ram |-> EmptyMemory, lastError |-> NoError,
     step |-> stateStepFetch, cycleCost |-> 0, op |-> 0, a |-> 0, b |-> 0,
     delayed |-> FALSE, address |-> AddressNone]

(***************************************************************************)
(* ClockRate: a count of hertz.  Strings are sequences of one-character     *)
(* strings.  Set's products stay far below 2^63 for the strings used here,  *)
(* so no product wraps.                                                     *)
(***************************************************************************)
DefaultClockRate == 100000

ErrScan == [kind |-> "ScanError", arg |-> 0]
ErrEOF == [kind |-> "EOF", arg |-> 0]
ErrNotPositive == [kind |-> "clock rate must be positive", arg |-> 0]
ErrUnknownSuffix == [kind |-> "unknown suffix", arg |-> 0]

DecimalDigits == <<"0", "1", "2", "3", "4", "5", "6", "7", "8", "9">>
UpperCase == <<"A", "B", "C", "D", "E", "F", "G", "H", "I", "J", "K", "L", "M",
               "N", "O", "P", "Q", "R", "S", "T", "U", "V", "W", "X", "Y", "Z">>
LowerCase == <<"a", "b", "c", "d", "e", "f", "g", "h", "i", "j", "k", "l", "m",
               "n", "o", "p", "q", "r", "s", "t", "u", "v", "w", "x", "y", "z">>

RECURSIVE Itoa(_)
\* the decimal digits of a natural number
Itoa(n) ==
    IF n < 10 THEN <<DecimalDigits[n + 1]>>
    ELSE Append(Itoa(n \div 10), DecimalDigits[(n % 10) + 1])

\* strconv.FormatFloat(c / unit, 'f', 1, 64) with a trailing ".0" cut off:
\* the quotient rounded to the nearest tenth.  A quotient halfway between
\* two tenths goes the way its binary fraction lies; no such rate is used.
FormatTenths(c, unit) ==
    Itoa(((c * 10 + unit \div 2) \div unit) \div 10)
        \o (IF ((c * 10 + unit \div 2) \div unit) % 10 = 0 THEN <<>>
            ELSE <<".", DecimalDigits[(((c * 10 + unit \div 2) \div unit) % 10) + 1]>>)

\* ClockRate.String
String(c) ==
    IF c >= 1000000 THEN FormatTenths(c, 1000000) \o <<"M", "H", "z">>
    ELSE IF c >= 1000 THEN FormatTenths(c, 1000) \o <<"K", "H", "z">>
    ELSE FormatTenths(c, 1) \o <<"H", "z">>

RECURSIVE SkipSpace(_)
SkipSpace(s) == IF s # <<>> /\ Head(s) = " " THEN SkipSpace(Tail(s)) ELSE s

IsDigit(ch) == \E d \in 1..10 : DecimalDigits[d] = ch

RECURSIVE ScanNumber(_, _, _)
\* the digits at the front of s: n is their value so far, any tells whether
\* a digit was taken
ScanNumber(s, n, any) ==
    IF s # <<>> /\ IsDigit(Head(s))
    THEN ScanNumber(Tail(s), n * 10 + (CHOOSE d \in 0..9 : DecimalDigits[d + 1] = Head(s)), TRUE)
    ELSE [n |-> n, rest |-> s, any |-> any]

\* the verb %d on s after its leading spaces: an optional sign, then digits
ScanInt(s, t) ==
    [ok |-> t.any, rest |-> t.rest,
     n |-> IF s # <<>> /\ Head(s) = "-" THEN 0 - t.n ELSE t.n]

RECURSIVE ScanToken(_)
\* the verb %s: the characters up to the next space
ScanToken(s) ==
    IF s = <<>> \/ Head(s) = " " THEN <<>> ELSE <<Head(s)>> \o ScanToken(Tail(s))

\* fmt.Sscanf(str, "%d%s", &rate, &suffix) once the number is scanned
SscanfAt(i) ==
    IF ~i.ok THEN [n |-> 0, rate |-> 0, suffix |-> <<>>, err |-> ErrScan]
    ELSE IF SkipSpace(i.rest) = <<>>
    THEN [n |-> 1, rate |-> i.n, suffix |-> <<>>, err |-> ErrEOF]
    ELSE [n |-> 2, rate |-> i.n, suffix |-> ScanToken(SkipSpace(i.rest)), err |-> NoError]

Sscanf(str) ==
    SscanfAt(ScanInt(SkipSpace(str),
                     ScanNumber(IF SkipSpace(str) # <<>> /\ Head(SkipSpace(str)) \in {"+", "-"}
                                THEN Tail(SkipSpace(str)) ELSE SkipSpace(str),
                                0, FALSE)))

\* strings.ToLower
ToLower(s) ==
    [k \in 1..Len(s) |->
        IF \E j \in 1..26 : UpperCase[j] = s[k]
        THEN LowerCase[CHOOSE j \in 1..26 : UpperCase[j] = s[k]]
        ELSE s[k]]

\* ClockRate.Set once the string is scanned: [c, err], c the ClockRate after
SetScanned(c, sc, suffix) ==
    IF sc.err # NoError /\ ~(sc.n = 1 /\ sc.err = ErrEOF) THEN [c |-> c, err |-> sc.err]
    ELSE IF sc.rate <= 0 THEN [c |-> c, err |-> ErrNotPositive]
    ELSE IF suffix = <<"m", "h", "z">> THEN [c |-> sc.rate * 1000000, err |-> NoError]
    ELSE IF suffix = <<"k", "h", "z">> THEN [c |-> sc.rate * 1000, err |-> NoError]
    ELSE IF suffix = <<"h", "z">> \/ suffix = <<>> THEN [c |-> sc.rate, err |-> NoError]
    ELSE [c |-> c, err |-> ErrUnknownSuffix]

\* ClockRate.Set
Set(c, str) == SetScanned(c, Sscanf(str), ToLower(Sscanf(str).suffix))

\* no call yet: op names the call, p1 and p2 are its numeric arguments (start
\* and length, or address and value), dev and prot its other arguments, ret
\* the error returned, val the word returned, pre the Memory before the call,
\* str the string a ClockRate call took or gave
NoCall == [op |-> "none", p1 |-> 0, p2 |-> 0, dev |-> "", prot |-> FALSE,
           ret |-> NoError, val |-> 0, pre |-> EmptyMemory, str |-> <<>>]

\* no instruction yet: pc and word are where it was fetched and its first
\* word, regs and mem the Registers and the Memory at that moment, n the
\* calls spent on it, ifAt and chainPC the call in which its IFx test failed
\* and the PC then, done whether the last call ended it, latched the calls
\* made since an error was latched
NoInsn == [pc |-> 0, word |-> 0, regs |-> ZeroRegisters, mem |-> EmptyMemory,
           n |-> 0, ifAt |-> 0, chainPC |-> 0, done |-> FALSE, latched |-> 0]

\* the arrow keys the main thread reports, and the runes it reports as typed
Keys == {128, 129}
Runes == {97}

\* Machine (zero value), with no driver goroutine.  main is the statement the
\* main thread stands at and driver the one the goroutine stands at; stopper
\* and stopped are "nil", or the content "empty" or "full" of the one-slot
\* channel, with result the value in stopped; cycleChan is the number of
\* values in that channel and timer whether timerChan is an armed timer;
\* terminal is whether Video.Init has opened the terminal, videoMapped is
\* v.addresses != nil and stats the cycle count UpdateStats last drew; input
\* is k.input ("nil", an "open" channel, or "closed": closed and set to nil
\* by the main thread, a write the driver may not have seen) and offset is
\* k.offset.  keys is the content of the one-slot channel k.input, keysDown
\* is k.keysDown (a key that is absent from the map reads false) and
\* releasing the key whose RegisterKeyReleased is at its send.  steps, polls,
\* posts and returns count, since the last Start, the driver's StepCycle
\* calls, its PollKeys calls, the errors it posted and the calls that
\* returned one; starts counts the Starts that succeeded.  fate tells, for
\* each key, what became of the event its last Register call offered to the
\* channel: "none" before any, "down" or "up" for an event the channel
\* took, "dropped" for one it did not.  now is the wall clock, startTime is
\* m.startTime, nextTime the driver's nextTime and timerAt the time the
\* armed timer is set for (0 with no timer armed), all in clock ticks.
NoMachine ==
    [main |-> "idle", driver |-> "none",
     stopper |-> "nil", stopped |-> "nil", result |-> NoError, stoperr |-> NoError,
     cycleCount |-> 0, cycleChan |-> 0, timer |-> FALSE,
     terminal |-> FALSE, videoMapped |-> FALSE, stats |-> 0,
     input |-> "nil", offset |-> 0,
     keys |-> <<>>, keysDown |-> [key \in Keys |-> FALSE], releasing |-> 0,
     fate |-> [key \in Keys \cup Runes |-> "none"],
     steps |-> 0, polls |-> 0, posts |-> 0, returns |-> 0, starts |-> 0,
     now |-> 0, startTime |-> 0, nextTime |-> 0, timerAt |-> 0]

\* State.LoadProgram(input, 0) on a fresh memory
ProgramCells(input) ==
    [i \in {k - 1 : k \in {j \in 1..Len(input) : input[j] # 0}} |-> input[i + 1]]

\* the instruction word aaaaaabbbbbooooo
Enc(o, bb, aa) == aa * 1024 + bb * 32 + o

(***************************************************************************)
(* The programs, register files and memory set-ups the interpreter is run  *)
(* on.  Single-instruction programs take every basic opcode value 1..31    *)
(* and special codes in and out of the tables, with operands of every      *)
(* addressing class; chain programs start with an IFE and continue with    *)
(* words drawn from ChainWords.                                            *)
(***************************************************************************)
MaxCycles == 8

DataBase == 4096

BasicCodes == 1..31
SpecialCodes == {0, 1, 2, 7, 8, 9, 10, 11, 16, 17, 18, 19, 31}
OperandsA == {0, 17, 24, 26, 30, 31, 32}
OperandsB == {1, 10, 24, 26, 28, 30, 31}

FirstWords ==
    {Enc(o, bb, aa) : o \in BasicCodes, bb \in OperandsB, aa \in OperandsA}
    \cup {Enc(0, sp, aa) : sp \in SpecialCodes, aa \in OperandsA}

SinglePrograms == {<<w, DataBase, DataBase + 1, Enc(opcodeSET, registerA, 34)>> : w \in FirstWords}

ChainHeads == {Enc(opcodeIFE, registerA, 33), Enc(opcodeIFE, registerA, 34),
               Enc(opcodeIFE, registerA, 31)}
ChainWords == {Enc(opcodeIFE, registerA, 33), Enc(opcodeSET, registerA, 26),
               Enc(opcodeIFG, 30, registerA), Enc(opcodeIFN, 26, 31),
               Enc(0, 16, registerA)}

ChainPrograms ==
    {<<h, w1, w2, w3, w4>> : h \in ChainHeads, w1 \in ChainWords, w2 \in ChainWords,
                             w3 \in ChainWords, w4 \in ChainWords}

PresetRegisters ==
    [r \in 0..(registerCount - 1) |->
        CASE r = registerA -> 5
          [] r = registerB -> DataBase
          [] r = registerC -> 65535
          [] r = registerX -> 3
          [] r = registerY -> 32768
          [] r = registerZ -> 1
          [] r = registerI -> 65535
          [] r = registerJ -> 7
          [] r = registerSP -> DataBase + 1
          [] r = registerPC -> 0
          [] r = registerEX -> 1
          [] OTHER -> 64]

RegisterFiles == {ZeroRegisters, PresetRegisters}

\* INT, IAS and STI: the stack at both ends of the word range and on either
\* side of the set-ups' region at DataBase, I and J at both ends too, and
\* STI destinations that are I or J or are addressed through them
SideOperands == {registerA, registerB, operandPushPop, operandNextWord, 32, 63}
StiOperandsB == {registerB, registerI, registerJ, 14, 15, 22, 23}
StiOperandsA == {registerC, registerI, registerJ, 14, operandNextWord}

SideWords ==
    {Enc(0, sp, aa) : sp \in {8, 10}, aa \in SideOperands}
    \cup {Enc(opcodeSTI, bb, aa) : bb \in StiOperandsB, aa \in StiOperandsA}

SidePrograms == {<<w, DataBase + 2, 5>> : w \in SideWords}

SideRegisterFiles ==
    {[PresetRegisters EXCEPT ![registerSP] = sp, ![registerI] = i, ![registerJ] = j] :
        sp \in {0, 1, DataBase + 1, DataBase + 17}, i \in {0, DataBase, 65535},
        j \in {7, 65535}}

\* memories reached by one MemProtect or MapRegion call on a fresh Memory
SetUps ==
    {EmptyMemory,
     MemProtect(EmptyMemory, DataBase, 16, TRUE).m,
     MapRegion(EmptyMemory, DataBase, 16, "rom").m,
     MapRegion(EmptyMemory, DataBase, 16, "buf").m}

Booted(program, registers, memory) ==
    [NewState EXCEPT !.Registers = registers,
                     !.Ram = [memory EXCEPT !.ram = ProgramCells(program)]]

Init ==
    /\ \/ \E program \in SinglePrograms, registers \in RegisterFiles, memory \in SetUps :
             state = Booted(program, registers, memory)
       \/ \E program \in ChainPrograms :
             state = Booted(program, ZeroRegisters, EmptyMemory)
       \/ \E program \in SidePrograms, registers \in SideRegisterFiles, memory \in SetUps :
             state = Booted(program, registers, memory)
    /\ call = NoCall
    /\ ncalls = 0
    /\ insn = NoInsn
    /\ machine = NoMachine
    /\ requestedRate = DefaultClockRate
    /\ scan = NoScan

(***************************************************************************)
(* One call of StepCycle, and what it did to the instruction in flight.    *)
(***************************************************************************)
IsIfx(o) == o >= opcodeIFB /\ o <= opcodeIFU

Track(S, r) ==
    IF S.lastError # NoError
    THEN [insn EXCEPT !.latched = @ + 1, !.done = FALSE]
    ELSE LET base == IF S.step = stateStepFetch
                     THEN [NoInsn EXCEPT !.pc = PC(S), !.word = Load(S.Ram, PC(S)),
                                        !.regs = S.Registers, !.mem = S.Ram]
                     ELSE insn
             failed == /\ r.err = NoError
                       /\ base.ifAt = 0
                       /\ IsIfx(decodeOpcode(base.word).op)
                       /\ r.S.step = stateStepExecute
                       /\ r.S.op = opcodeSET
         IN  [base EXCEPT !.n = @ + 1,
                          !.ifAt = IF failed THEN base.n + 1 ELSE @,
                          !.chainPC = IF failed THEN PC(r.S) ELSE @,
                          !.done = (r.err = NoError /\ r.S.step = stateStepFetch)]

\* r is what StepCycle returned
Returned(r) ==
    /\ state' = r.S
    /\ call' = [NoCall EXCEPT !.op = "StepCycle", !.ret = r.err]
    /\ insn' = Track(state, r)
    /\ UNCHANGED <<machine, requestedRate, scan>>

StepCycleCall ==
    /\ ncalls < MaxCycles
    /\ Returned(StepCycle(state))
    /\ ncalls' = ncalls + 1

Next == StepCycleCall

Spec == Init /\ [][Next]_vars

(***************************************************************************)
(* The arithmetic instructions on their own: one instruction OP B, C is    *)
(* run on a fresh State whose registers B, C and EX hold values drawn from *)
(* AluValues and AluEX (small and large shift counts, zero divisors, both  *)
(* signs of a 16-bit number and the ends of the word range).               *)
(***************************************************************************)
AluOps == {opcodeADD, opcodeSUB, opcodeMUL, opcodeMLI, opcodeDIV, opcodeDVI,
           opcodeMOD, opcodeSHL}
AluValues == {0, 1, 2, 3, 15, 16, 17, 31, 32, 32767, 32768, 32769, 65534, 65535}
AluEX == {0, 65535}

\* the instruction o B, C
AluWord(o) == Enc(o, registerB, registerC)

AluRegisters(b, a, ex) ==
    [ZeroRegisters EXCEPT ![registerB] = b, ![registerC] = a, ![registerEX] = ex]

InitAlu ==
    /\ \E o \in AluOps, b \in AluValues, a \in AluValues, ex \in AluEX :
          state = Booted(<<AluWord(o)>>, AluRegisters(b, a, ex), EmptyMemory)
    /\ call = NoCall
    /\ ncalls = 0
    /\ insn = NoInsn
    /\ machine = NoMachine
    /\ requestedRate = DefaultClockRate
    /\ scan = NoScan

SpecAlu == InitAlu /\ [][Next]_vars

(***************************************************************************)
(* The stack operands: instructions of one, two and three cycles with      *)
(* PUSH, POP, PEEK, a register, [next word] and a next-word literal as     *)
(* operands, run with SP at both ends of the word range.  The two words    *)
(* after the instruction are its possible next words.                      *)
(***************************************************************************)
StackOps == {opcodeSET, opcodeADD, opcodeDIV}
StackOperandsB == {registerB, operandPushPop, operandPeek, operandNextWordAddress}
StackOperandsA == {registerC, operandPushPop, operandPeek, operandNextWordAddress,
                   operandNextWord}
StackPointers == {0, 1, 2, 65535}
StackWords == <<40, 50>>

StackRegisters(sp) ==
    [ZeroRegisters EXCEPT ![registerB] = 3, ![registerC] = 7, ![registerSP] = sp]

InitStack ==
    /\ \E o \in StackOps, bb \in StackOperandsB, aa \in StackOperandsA,
          sp \in StackPointers :
          state = Booted(<<Enc(o, bb, aa)>> \o StackWords, StackRegisters(sp), EmptyMemory)
    /\ call = NoCall
    /\ ncalls = 0
    /\ insn = NoInsn
    /\ machine = NoMachine
    /\ requestedRate = DefaultClockRate
    /\ scan = NoScan

SpecStack == InitStack /\ [][Next]_vars

(***************************************************************************)
(* The memory interface on its own: MapRegion, UnmapRegion, MemProtect,    *)
(* Store and Load called in any order on a fresh State, with ranges drawn  *)
(* from MemStarts x MemLengths (touching, overlapping, nested, ending at   *)
(* 0x10000 and out of bounds) and accesses at ProbeAddrs.                  *)
(***************************************************************************)
MaxOps == 3
MaxRegions == 3

MemStarts == {0, 1, 3, 65534}
MemLengths == {2, 4}
ProbeAddrs == {1, 3, 65535}
StoreValue == 7

InitMem ==
    /\ state = NewState
    /\ call = NoCall
    /\ ncalls = 0
    /\ insn = NoInsn
    /\ machine = NoMachine
    /\ requestedRate = DefaultClockRate
    /\ scan = NoScan

\* the effect of a call on the memory and on the observation: r is [m, err]
MemCall(r, c) ==
    /\ state' = [state EXCEPT !.Ram = r.m]
    /\ call' = [c EXCEPT !.ret = r.err, !.pre = state.Ram]
    /\ ncalls' = ncalls + 1
    /\ UNCHANGED <<insn, machine, requestedRate, scan>>

MapRegionCall ==
    \E start \in MemStarts, length \in MemLengths, d \in TestDevices :
        /\ ncalls < MaxOps
        /\ Len(state.Ram.mapped) < MaxRegions
        /\ MemCall(MapRegion(state.Ram, start, length, d),
                   [NoCall EXCEPT !.op = "MapRegion", !.p1 = start, !.p2 = length, !.dev = d])

UnmapRegionCall ==
    \E start \in MemStarts, length \in MemLengths :
        /\ ncalls < MaxOps
        /\ MemCall(UnmapRegion(state.Ram, start, length),
                   [NoCall EXCEPT !.op = "UnmapRegion", !.p1 = start, !.p2 = length])

MemProtectCall ==
    \E start \in MemStarts, length \in MemLengths, prot \in BOOLEAN :
        /\ ncalls < MaxOps
        /\ Len(state.Ram.protected) < MaxRegions
        /\ MemCall(MemProtect(state.Ram, start, length, prot),
                   [NoCall EXCEPT !.op = "MemProtect", !.p1 = start, !.p2 = length,
                                  !.prot = prot])

StoreCall ==
    \E addr \in ProbeAddrs :
        /\ ncalls < MaxOps
        /\ MemCall(Store(state.Ram, addr, StoreValue),
                   [NoCall EXCEPT !.op = "Store", !.p1 = addr, !.p2 = StoreValue])

LoadCall ==
    \E addr \in ProbeAddrs :
        /\ ncalls < MaxOps
        /\ MemCall([m |-> state.Ram, err |-> NoError],
                   [NoCall EXCEPT !.op = "Load", !.p1 = addr, !.val = Load(state.Ram, addr)])

NextMem ==
    \/ MapRegionCall
    \/ UnmapRegionCall
    \/ MemProtectCall
    \/ StoreCall
    \/ LoadCall

SpecMem == InitMem /\ [][NextMem]_vars

(***************************************************************************)
(* The Machine: Start, Stop and HasError on the main thread and the driver *)
(* goroutine that Start launches.  Every operator below works on the pair  *)
(* [M, S] of the machine record and the State and returns it with the      *)
(* error of the call.  A call that cannot block is one step; Stop is a     *)
(* step for each of Video.UnmapFromMachine, Keyboard.UnmapFromMachine, the *)
(* send on stopper with Video.Close, and the receive from stopped.  The    *)
(* driver takes one step per case of its select and one to post its        *)
(* result; the close of stopped that follows the send touches nothing but  *)
(* that channel and is part of that step.                                  *)
(***************************************************************************)
VideoBase == 32768
VideoLength == 1024
KeyboardBase == 36864
KeyboardLength == 16
KeyboardZeroed == 10
backgroundColorAddress == 640
DefaultBackground == 6
KeyUp == 256

\* errors.New(text); "termbox.Init" stands for the error of a terminal that
\* cannot be opened
ErrorsNew(text) == [kind |-> text, arg |-> 0]

MachineError(err, pc) == [kind |-> "MachineError", UnderlyingError |-> err, PC |-> pc]

\* what a call on the machine leaves: the machine, the State and the error
Left(M, S, err) == [M |-> M, S |-> S, err |-> err]

\* r is what a Memory call returned
WithRam(M, S, r) == Left(M, [S EXCEPT !.Ram = r.m], r.err)

VideoMapToMachine(M, S) ==
    IF M.videoMapped
    THEN Left(M, S, ErrorsNew("Video is already mapped to a machine"))
    ELSE WithRam([M EXCEPT !.videoMapped = TRUE], S,
                 MapRegion(S.Ram, VideoBase, VideoLength, "video"))

VideoUnmapFromMachine(M, S) ==
    IF ~M.videoMapped
    THEN Left(M, S, ErrorsNew("Video is not mapped to a machine"))
    ELSE IF UnmapRegion(S.Ram, VideoBase, VideoLength).err # NoError
    THEN Left(M, S, UnmapRegion(S.Ram, VideoBase, VideoLength).err)
    ELSE WithRam([M EXCEPT !.videoMapped = FALSE], S,
                 UnmapRegion(S.Ram, VideoBase, VideoLength))

\* Video.Init once termbox.Init has succeeded: the background defaults to cyan
VideoInit(S) ==
    [S EXCEPT !.Ram.bufs.video = CellSet(@, backgroundColorAddress, DefaultBackground)]

VideoClose(M) == [M EXCEPT !.terminal = FALSE]

\* the cycle count is drawn on the screen
UpdateStats(M) == [M EXCEPT !.stats = M.cycleCount]

KeyboardMapToMachine(offset, M, S) ==
    IF M.input = "open"
    THEN Left(M, S, ErrorsNew("Keyboard is already mapped to a machine"))
    ELSE WithRam([M EXCEPT !.input = "open", !.offset = 0, !.keys = <<>>], S,
                 MapRegion([S.Ram EXCEPT !.bufs.keyboard =
                               [i \in DOMAIN @ \ (0..(KeyboardZeroed - 1)) |-> @[i]]],
                           offset, KeyboardLength, "keyboard"))

KeyboardUnmapFromMachine(offset, M, S) ==
    IF M.input # "open"
    THEN Left(M, S, ErrorsNew("Keyboard is not mapped to a machine"))
    ELSE IF UnmapRegion(S.Ram, offset, KeyboardLength).err # NoError
    THEN Left(M, S, UnmapRegion(S.Ram, offset, KeyboardLength).err)
    ELSE WithRam([M EXCEPT !.input = "closed"], S,
                 UnmapRegion(S.Ram, offset, KeyboardLength))

\* PollKeys.  On an open channel the receive takes the pending event, if
\* there is one; on a nil channel the select takes its default.  On the
\* closed channel, which the driver may still read from k.input (stale)
\* while the main thread closes it and sets the field to nil, the receive
\* takes the event left in the buffer, and the zero value after that.
PollKeys(M, S, stale) ==
    IF DevGet(S.Ram, "keyboard", M.offset) # 0
    THEN Left([M EXCEPT !.polls = @ + 1], S, NoError)
    ELSE IF (M.input = "open" \/ (M.input = "closed" /\ stale)) /\ M.keys # <<>>
    THEN Left([M EXCEPT !.offset = (@ + 1) % KeyboardLength, !.keys = <<>>,
                        !.polls = @ + 1],
              [S EXCEPT !.Ram.bufs.keyboard = CellSet(@, M.offset, Word(M.keys[1]))],
              NoError)
    ELSE IF M.input = "closed" /\ stale
    THEN Left([M EXCEPT !.offset = (@ + 1) % KeyboardLength, !.polls = @ + 1], S, NoError)
    ELSE Left([M EXCEPT !.polls = @ + 1], S, NoError)

\* the three calls that report key events.  The typed and the pressed key
\* are sent if the channel takes them at once and dropped otherwise (a send
\* on a nil channel is never ready)
RegisterKeyTyped(M, key) ==
    IF M.input = "open" /\ M.keys = <<>> THEN [M EXCEPT !.keys = <<key>>] ELSE M

RegisterKeyPressed(M, key) ==
    IF M.input = "open" /\ M.keys = <<>>
    THEN [M EXCEPT !.keys = <<key>>, !.keysDown[key] = TRUE]
    ELSE [M EXCEPT !.keysDown[key] = FALSE]

\* a RegisterKeyReleased that sends the key up whatever became of the key down
RegisterKeyReleasedAlways(M, key) == [M EXCEPT !.main = "release", !.releasing = key]

\* RegisterKeyReleased up to its send: it returns at once for a key that is
\* not down
RegisterKeyReleased(M, key) ==
    IF ~M.keysDown[key] THEN M ELSE [M EXCEPT !.main = "release", !.releasing = key]

\* k.input <- rune(key) | 0x100, once the channel takes it, and the return
Released(M) ==
    [M EXCEPT !.keys = <<M.releasing + KeyUp>>, !.keysDown[M.releasing] = FALSE,
              !.releasing = 0, !.main = "idle"]

\* period := rate.ToDuration(), in clock ticks
Period == 2

\* Start once both peripherals are mapped: the channels are made, the cycle
\* counter is zeroed, the clock is read and the driver goroutine stands at
\* its select with one value in cycleChan
Launched(M) ==
    [M EXCEPT !.stopper = "empty", !.stopped = "empty", !.result = NoError,
              !.stoperr = NoError, !.cycleCount = 0, !.cycleChan = 1,
              !.timer = FALSE, !.driver = "select",
              !.startTime = M.now, !.nextTime = M.now, !.timerAt = 0,
              !.steps = 0, !.polls = 0, !.posts = 0, !.returns = 0,
              !.starts = @ + 1]

\* a Start that does not look at m.stopped
StartAnew(M, S, initOK) ==
    IF ~initOK THEN Left(M, S, ErrorsNew("termbox.Init"))
    ELSE LET v == VideoMapToMachine([M EXCEPT !.terminal = TRUE], VideoInit(S))
             k == KeyboardMapToMachine(KeyboardBase, v.M, v.S)
         IN  IF v.err # NoError THEN Left(VideoClose(v.M), v.S, v.err)
             ELSE IF k.err # NoError THEN Left(VideoClose(k.M), k.S, k.err)
             ELSE Left(Launched(k.M), k.S, NoError)

\* Start; initOK is whether Video.Init succeeds, v and k are what
\* Video.MapToMachine and Keyboard.MapToMachine return, and an error return
\* runs the deferred Video.Close
Start(M, S, initOK) ==
    IF M.stopped # "nil" THEN Left(M, S, ErrorsNew("Machine has already started"))
    ELSE IF ~initOK THEN Left(M, S, ErrorsNew("termbox.Init"))
    ELSE LET v == VideoMapToMachine([M EXCEPT !.terminal = TRUE], VideoInit(S))
             k == KeyboardMapToMachine(KeyboardBase, v.M, v.S)
         IN  IF v.err # NoError THEN Left(VideoClose(v.M), v.S, v.err)
             ELSE IF k.err # NoError THEN Left(VideoClose(k.M), k.S, k.err)
             ELSE Left(Launched(k.M), k.S, NoError)

\* the main thread has the driver's result: both channels are dropped
Drained(M) ==
    [M EXCEPT !.stopper = "nil", !.stopped = "nil", !.result = NoError,
              !.returns = IF M.result # NoError THEN @ + 1 ELSE @]

HasError(M, S) ==
    IF M.stopped = "nil" THEN Left(M, S, ErrorsNew("Machine has not started"))
    ELSE IF M.stopped = "full" THEN Left(Drained(VideoClose(M)), S, M.result)
    ELSE Left(M, S, NoError)

\* a runCycle that sets nextTime one period after the clock, as a ticker
\* that skips the cycles it is late for
runCycleSkipping(M, r, late, stale) ==
    IF r.err # NoError
    THEN Left([M EXCEPT !.stoperr = MachineError(r.err, PC(r.S)), !.driver = "post",
                        !.steps = @ + 1], r.S, r.err)
    ELSE LET p == PollKeys([M EXCEPT !.cycleCount = @ + 1, !.steps = @ + 1], r.S, stale)
         IN  Left([p.M EXCEPT !.nextTime = M.now + Period,
                              !.timer = TRUE,
                              !.timerAt = M.now + Period],
                  p.S, NoError)

\* a runCycle that arms the timer in every cycle, late or not
runCycleArming(M, r, late, stale) ==
    IF r.err # NoError
    THEN Left([M EXCEPT !.stoperr = MachineError(r.err, PC(r.S)), !.driver = "post",
                        !.steps = @ + 1], r.S, r.err)
    ELSE LET p == PollKeys([M EXCEPT !.cycleCount = @ + 1, !.steps = @ + 1], r.S, stale)
         IN  Left([p.M EXCEPT !.nextTime = @ + Period,
                              !.timer = TRUE,
                              !.timerAt = M.nextTime + Period,
                              !.cycleChan = IF late /\ @ = 0 THEN 1 ELSE @,
                              !.driver = IF late /\ M.cycleChan = 1 THEN "blocked" ELSE @],
                  p.S, NoError)

\* a runCycle that goes on after StepCycle returned an error
runCycleOn(M, r, late, stale) ==
    LET p == PollKeys([M EXCEPT !.cycleCount = @ + 1, !.steps = @ + 1], r.S, stale)
    IN  Left([p.M EXCEPT !.nextTime = @ + Period,
                         !.timer = IF late THEN @ ELSE TRUE,
                         !.timerAt = IF late THEN @ ELSE M.nextTime + Period,
                         !.cycleChan = IF late /\ @ = 0 THEN 1 ELSE @],
             p.S, NoError)

\* runCycle, r being what StepCycle returned and p what PollKeys leaves: late
\* is whether the clock has already reached the new nextTime, stale whether PollKeys
\* still sees a channel that the main thread has closed.  A send on a full
\* cycleChan blocks the driver.
runCycle(M, r, late, stale) ==
    IF r.err # NoError
    THEN Left([M EXCEPT !.stoperr = MachineError(r.err, PC(r.S)), !.driver = "post",
                        !.steps = @ + 1], r.S, r.err)
    ELSE LET p == PollKeys([M EXCEPT !.cycleCount = @ + 1, !.steps = @ + 1], r.S, stale)
         IN  Left([p.M EXCEPT !.nextTime = @ + Period,
                              !.timer = IF late THEN @ ELSE TRUE,
                              !.timerAt = IF late THEN @ ELSE M.nextTime + Period,
                              !.cycleChan = IF late /\ @ = 0 THEN 1 ELSE @,
                              !.driver = IF late /\ M.cycleChan = 1 THEN "blocked" ELSE @],
                  p.S, NoError)

(***************************************************************************)
(* The machine is run on a program that fails in its first cycle (memory   *)
(* is all zero), one that loops for ever (SET PC, 0), one that writes a     *)
(* word of video memory and then fails (SET [0x8000], 1) and one that       *)
(* fills the first slot of the keyboard ring and then fails                *)
(* (SET [0x9000], 1).  MaxCalls bounds the calls the main thread makes and  *)
(* MaxSteps the cycles of one driver.                                      *)
(***************************************************************************)
MaxCalls == 5
MaxSteps == 3

MachinePrograms ==
    {<<>>,
     <<Enc(opcodeSET, operandPC, 33)>>,
     <<Enc(opcodeSET, operandNextWordAddress, 34), VideoBase>>,
     <<Enc(opcodeSET, operandNextWordAddress, 34), KeyboardBase>>}

InitMachine ==
    /\ \E program \in MachinePrograms : state = Booted(program, ZeroRegisters, EmptyMemory)
    /\ call = NoCall
    /\ ncalls = 0
    /\ insn = NoInsn
    /\ machine = NoMachine
    /\ requestedRate = DefaultClockRate
    /\ scan = NoScan

\* a call of the main thread returned r; c names the call
MainReturned(r, c) ==
    /\ machine' = [r.M EXCEPT !.main = "idle"]
    /\ state' = r.S
    /\ call' = [NoCall EXCEPT !.op = c, !.ret = r.err]
    /\ UNCHANGED <<insn, requestedRate, scan>>

\* a statement of Stop or of the driver left r
Moved(r) ==
    /\ machine' = r.M
    /\ state' = r.S
    /\ UNCHANGED <<call, ncalls, insn, requestedRate, scan>>

StartCall ==
    \E initOK \in BOOLEAN :
        /\ machine.main = "idle"
        /\ ncalls < MaxCalls
        /\ MainReturned(Start(machine, state, initOK), "Start")
        /\ ncalls' = ncalls + 1

HasErrorCall ==
    /\ machine.main = "idle"
    /\ ncalls < MaxCalls
    /\ MainReturned(HasError(machine, state), "HasError")
    /\ ncalls' = ncalls + 1

\* Stop on a machine that has not started
StopIdle ==
    /\ machine.main = "idle"
    /\ ncalls < MaxCalls
    /\ machine.stopped = "nil"
    /\ MainReturned(Left(machine, state, ErrorsNew("Machine has not started")), "Stop")
    /\ ncalls' = ncalls + 1

\* Stop: m.Video.UnmapFromMachine(0x8000, m), its error dropped
StopVideo ==
    /\ machine.main = "idle"
    /\ ncalls < MaxCalls
    /\ machine.stopped # "nil"
    /\ machine' = [VideoUnmapFromMachine(machine, state).M EXCEPT !.main = "unmapKeyboard"]
    /\ state' = VideoUnmapFromMachine(machine, state).S
    /\ call' = [NoCall EXCEPT !.op = "Stop called"]
    /\ ncalls' = ncalls + 1
    /\ UNCHANGED <<insn, requestedRate, scan>>

\* Stop: m.Keyboard.UnmapFromMachine(0x9000, m), its error dropped
StopKeyboard ==
    /\ machine.main = "unmapKeyboard"
    /\ Moved(Left([KeyboardUnmapFromMachine(KeyboardBase, machine, state).M EXCEPT !.main = "signal"],
                  KeyboardUnmapFromMachine(KeyboardBase, machine, state).S, NoError))

\* Stop: m.stopper <- struct{}{}, then m.Video.Close()
StopSignal ==
    /\ machine.main = "signal"
    /\ machine.stopper = "empty"
    /\ Moved(Left([VideoClose(machine) EXCEPT !.stopper = "full", !.main = "wait"],
                  state, NoError))

\* Stop: err := <-m.stopped and the return
StopWait ==
    /\ machine.main = "wait"
    /\ machine.stopped = "full"
    /\ MainReturned(Left(Drained(machine), state, machine.result), "Stop")
    /\ UNCHANGED ncalls

\* case _ = <-scanrate.C
ScanTick ==
    /\ machine.driver = "select"
    /\ Moved(Left(UpdateStats(machine), state, NoError))

\* case _ = <-timerChan
TimerFire ==
    \E late \in BOOLEAN, stale \in BOOLEAN :
        /\ machine.driver = "select"
        /\ machine.timer
        /\ machine.steps < MaxSteps
        /\ Moved(runCycle([machine EXCEPT !.timer = FALSE, !.timerAt = 0],
                          StepCycle(state), late, stale))

\* case _ = <-cycleChan
CycleReady ==
    \E late \in BOOLEAN, stale \in BOOLEAN :
        /\ machine.driver = "select"
        /\ machine.cycleChan = 1
        /\ machine.steps < MaxSteps
        /\ Moved(runCycle([machine EXCEPT !.cycleChan = 0], StepCycle(state), late, stale))

\* case _ = <-stopper
StopReceived ==
    /\ machine.driver = "select"
    /\ machine.stopper = "full"
    /\ Moved(Left([machine EXCEPT !.stopper = "empty", !.driver = "post"], state, NoError))

\* a driver that ends without posting its result
PostLost ==
    /\ machine.driver = "post"
    /\ Moved(Left([machine EXCEPT !.driver = "none"], state, NoError))

\* scanrate.Stop(); stopped <- stoperr; close(stopped)
Post ==
    /\ machine.driver = "post"
    /\ machine.stopped = "empty"
    /\ Moved(Left([machine EXCEPT !.stopped = "full", !.result = machine.stoperr,
                                  !.posts = IF machine.stoperr # NoError THEN @ + 1 ELSE @,
                                  !.driver = "none"],
                  state, NoError))

NextMachine ==
    \/ StartCall
    \/ HasErrorCall
    \/ StopIdle
    \/ StopVideo
    \/ StopKeyboard
    \/ StopSignal
    \/ StopWait
    \/ ScanTick
    \/ TimerFire
    \/ CycleReady
    \/ StopReceived
    \/ Post

SpecMachine == InitMachine /\ [][NextMachine]_vars

(***************************************************************************)
(* The machine with its keyboard in use: between its other calls the main  *)
(* thread reports typed runes and arrow keys going down and up.            *)
(***************************************************************************)
\* a Register call left M; c names the call and key is its argument
Registered(M, c, key) ==
    /\ machine' = IF M.main = "release" \/ (c = "RegisterKeyReleased" /\ M.keys = machine.keys)
                  THEN M
                  ELSE [M EXCEPT !.fate[key] =
                            IF M.keys = machine.keys THEN "dropped"
                            ELSE IF M.keys[1] = key THEN "down" ELSE "up"]
    /\ call' = [NoCall EXCEPT !.op = c, !.p1 = key]
    /\ UNCHANGED <<state, insn, requestedRate, scan>>

RegisterKeyTypedCall ==
    \E key \in Runes :
        /\ machine.main = "idle"
        /\ ncalls < MaxCalls
        /\ Registered(RegisterKeyTyped(machine, key), "RegisterKeyTyped", key)
        /\ ncalls' = ncalls + 1

RegisterKeyPressedCall ==
    \E key \in Keys :
        /\ machine.main = "idle"
        /\ ncalls < MaxCalls
        /\ Registered(RegisterKeyPressed(machine, key), "RegisterKeyPressed", key)
        /\ ncalls' = ncalls + 1

RegisterKeyReleasedCall ==
    \E key \in Keys :
        /\ machine.main = "idle"
        /\ ncalls < MaxCalls
        /\ Registered(RegisterKeyReleased(machine, key), "RegisterKeyReleased", key)
        /\ ncalls' = ncalls + 1

\* the blocking send of RegisterKeyReleased goes through
ReleasedSend ==
    /\ machine.main = "release"
    /\ machine.input = "open"
    /\ machine.keys = <<>>
    /\ Registered(Released(machine), "RegisterKeyReleased", machine.releasing)
    /\ UNCHANGED ncalls

NextKeys ==
    \/ NextMachine
    \/ RegisterKeyTypedCall
    \/ RegisterKeyPressedCall
    \/ RegisterKeyReleasedCall
    \/ ReleasedSend

SpecKeys == InitMachine /\ [][NextKeys]_vars

\* the main thread goes on with a send that the channel can take, and the
\* driver goroutine is scheduled: it takes the stop signal and, having left
\* its loop, posts its result.  Its cycles get no condition: the behaviours
\* looked at under this specification are those of a driver that has ended,
\* which runs no cycle.
SpecKeysFair ==
    /\ SpecKeys
    /\ WF_vars(ReleasedSend)
    /\ WF_vars(StopReceived)
    /\ WF_vars(Post)

(***************************************************************************)
(* The Keyboard on its own: it is mapped and unmapped at the offsets of     *)
(* RingOffsets, keys are typed, PollKeys is called as the driver calls it   *)
(* after a cycle, and the program clears ring words through the region.    *)
(* MaxPolls bounds the PollKeys calls.                                      *)
(***************************************************************************)
MaxPolls == 12

RingOffsets == {KeyboardBase, KeyboardBase + 256}

\* the ring words that the program clears
RingCleared == {0}

InitRing ==
    /\ state = NewState
    /\ call = NoCall
    /\ ncalls = 0
    /\ insn = NoInsn
    /\ machine = NoMachine
    /\ requestedRate = DefaultClockRate
    /\ scan = NoScan

\* a call on the keyboard returned r; c names the call and offset is its
\* argument
RingReturned(r, c, offset) ==
    /\ machine' = r.M
    /\ state' = r.S
    /\ call' = [NoCall EXCEPT !.op = c, !.p1 = offset, !.ret = r.err]
    /\ UNCHANGED <<ncalls, insn, requestedRate, scan>>

MapToMachineCall ==
    \E offset \in RingOffsets :
        /\ Len(state.Ram.mapped) < MaxRegions
        /\ RingReturned(KeyboardMapToMachine(offset, machine, state),
                        "MapToMachine", offset)

UnmapFromMachineCall ==
    \E offset \in RingOffsets :
        RingReturned(KeyboardUnmapFromMachine(offset, machine, state),
                     "UnmapFromMachine", offset)

RingTyped ==
    \E key \in Runes :
        RingReturned(Left(RegisterKeyTyped(machine, key), state, NoError),
                     "RegisterKeyTyped", key)

RingPoll ==
    /\ machine.polls < MaxPolls
    /\ RingReturned(PollKeys(machine, state, FALSE), "PollKeys", 0)

\* the program stores 0 in a word of the mapped ring
RingClear ==
    \E offset \in RingOffsets, i \in RingCleared :
        /\ MappedIndex(state.Ram, offset) # 0
        /\ RingReturned(WithRam(machine, state, Store(state.Ram, offset + i, 0)),
                        "Store", offset + i)

NextRing ==
    \/ MapToMachineCall
    \/ UnmapFromMachineCall
    \/ RingTyped
    \/ RingPoll
    \/ RingClear

SpecRing == InitRing /\ [][NextRing]_vars

(***************************************************************************)
(* The machine against the wall clock.  The clock advances in ticks up to  *)
(* MaxTime, at any moment (a driver that is not scheduled stalls while the  *)
(* clock goes on); a cycle takes a time in Elapsed, the armed timer fires   *)
(* no earlier than the time it is set for, and runCycle compares the clock  *)
(* it reads with the new nextTime.                                          *)
(***************************************************************************)
MaxTime == 6
Elapsed == {0, 1}

Tick ==
    /\ machine.now < MaxTime
    /\ Moved(Left([machine EXCEPT !.now = @ + 1], state, NoError))

\* case _ = <-timerChan, the timer having fired
TimerFireTimed ==
    \E d \in Elapsed, stale \in BOOLEAN :
        /\ machine.driver = "select"
        /\ machine.timer
        /\ machine.now >= machine.timerAt
        /\ machine.now + d <= MaxTime
        /\ machine.steps < MaxSteps
        /\ Moved(runCycle([machine EXCEPT !.timer = FALSE, !.timerAt = 0, !.now = @ + d],
                          StepCycle(state),
                          machine.now + d >= machine.nextTime + Period, stale))

\* case _ = <-cycleChan
CycleReadyTimed ==
    \E d \in Elapsed, stale \in BOOLEAN :
        /\ machine.driver = "select"
        /\ machine.cycleChan = 1
        /\ machine.now + d <= MaxTime
        /\ machine.steps < MaxSteps
        /\ Moved(runCycle([machine EXCEPT !.cycleChan = 0, !.now = @ + d],
                          StepCycle(state),
                          machine.now + d >= machine.nextTime + Period, stale))

NextTimed ==
    \/ StartCall
    \/ HasErrorCall
    \/ StopIdle
    \/ StopVideo
    \/ StopKeyboard
    \/ StopSignal
    \/ StopWait
    \/ ScanTick
    \/ TimerFireTimed
    \/ CycleReadyTimed
    \/ StopReceived
    \/ Post
    \/ Tick

SpecTimed == InitMachine /\ [][NextTimed]_vars

\* the main thread goes on through Stop, the driver goroutine is scheduled,
\* and its select, which picks at random among the ready cases, does not
\* pass over the stop signal for ever
SpecMachineFair ==
    /\ SpecMachine
    /\ WF_vars(StopKeyboard)
    /\ WF_vars(StopSignal)
    /\ WF_vars(StopWait)
    /\ WF_vars(StopReceived)
    /\ WF_vars(Post)

(***************************************************************************)
(* The ClockRate of the -rate flag: flag.Parse hands the flag's text to Set *)
(* and the usage and the rate report print it with String.  ClockRates are  *)
(* the rates tried, given on the command line in hertz; ClockTexts adds the *)
(* strings String prints for them and strings Set is to refuse.            *)
(***************************************************************************)
ClockRates ==
    {1, 60, 999, 1000, 1234, 1500, 99999, 250000, 1000000, 1500000, 5000000, 12000000}

\* strings for zero and for negative rates
NonPositiveTexts ==
    {<<"0", "h", "z">>, <<"0", "K", "H", "z">>,
     <<"-", "5", "h", "z">>, <<"-", "1", "M", "H", "z">>}

\* strings with a suffix that is none of hz, khz, mhz
UnknownSuffixTexts == {<<"5", "g", "h", "z">>, <<"7", "x">>}

ClockTexts ==
    {Itoa(x) \o <<"h", "z">> : x \in ClockRates}
        \cup {String(x) : x \in ClockRates}
        \cup {<<"1", "0", "0", "k", "h", "z">>, <<"5", "m", "h", "z">>, <<"h", "z">>}
        \cup NonPositiveTexts \cup UnknownSuffixTexts

StringCall ==
    /\ ncalls < MaxOps
    /\ call' = [NoCall EXCEPT !.op = "String", !.p1 = requestedRate,
                              !.str = String(requestedRate)]
    /\ ncalls' = ncalls + 1
    /\ UNCHANGED <<state, insn, machine, requestedRate, scan>>

SetCall ==
    \E str \in ClockTexts :
        /\ ncalls < MaxOps
        /\ requestedRate' = Set(requestedRate, str).c
        /\ call' = [NoCall EXCEPT !.op = "Set", !.p1 = requestedRate, !.str = str,
                                  !.ret = Set(requestedRate, str).err]
        /\ ncalls' = ncalls + 1
        /\ UNCHANGED <<state, insn, machine, scan>>

NextClock ==
    \/ StringCall
    \/ SetCall

SpecClock == InitMem /\ [][NextClock]_vars

(***************************************************************************)
(* skipInstruction, one iteration of its loop at a time.  The State is at  *)
(* the call that a failed IFx makes; the memory holds one word everywhere   *)
(* but for the few words given.                                             *)
(***************************************************************************)
\* cost, a uint, is counted up to MaxCost; from there on it is only known to
\* be at least MaxCost
MaxCost == 3

\* a word that is no IFx, an IFx of one word and an IFx of three words
ScanFills ==
    {0, Enc(opcodeIFE, registerA, 33),
     Enc(opcodeIFN, operandNextWordAddress, operandNextWord)}

\* the words that differ from the rest: none, or one SET A, -1
ScanStops == {EmptyCells, (6 :> Enc(opcodeSET, registerA, 32))}

ScanStarts == {0, 65530}

InitSkip ==
    /\ \E w \in ScanFills, cells \in ScanStops, pc \in ScanStarts :
          state = [NewState EXCEPT !.Registers[registerPC] = pc,
                                   !.Ram = [EmptyMemory EXCEPT !.fill = w,
                                                               !.ram = cells]]
    /\ call = NoCall
    /\ ncalls = 0
    /\ insn = NoInsn
    /\ machine = NoMachine
    /\ requestedRate = DefaultClockRate
    /\ scan = NoScan

\* count := Word(0); cost := uint(0)
SkipStart ==
    /\ scan.at = "none"
    /\ scan' = [at |-> "loop", count |-> 0, cost |-> 0]
    /\ UNCHANGED <<state, call, ncalls, insn, machine, requestedRate>>

\* one pass of the for loop: continue on an IFx, break on anything else
SkipStep ==
    /\ scan.at = "loop"
    /\ LET opcode == Load(state.Ram, Word(PC(state) + scan.count))
           count1 == Word(scan.count + instructionLength(opcode))
           cost1 == IF scan.cost < MaxCost THEN scan.cost + 1 ELSE MaxCost
       IN  scan' = [at |-> IF IsIfx(decodeOpcode(opcode).op) THEN "loop" ELSE "set",
                    count |-> count1, cost |-> cost1]
    /\ UNCHANGED <<state, call, ncalls, insn, machine, requestedRate>>

\* after the loop: set up the state to execute SET PC, a
SkipEnd ==
    /\ scan.at = "set"
    /\ state' = [state EXCEPT !.op = opcodeSET,
                              !.a = Word(PC(state) + scan.count),
                              !.address = Address(addressTypeRegister, registerPC),
                              !.cycleCost = scan.cost]
    /\ scan' = [scan EXCEPT !.at = "done"]
    /\ UNCHANGED <<call, ncalls, insn, machine, requestedRate>>

NextSkip == SkipStart \/ SkipStep \/ SkipEnd

SpecSkip == InitSkip /\ [][NextSkip]_vars

\* the goroutine inside skipInstruction keeps running: a statement that can
\* be executed is executed
SpecSkipFair == SpecSkip /\ WF_vars(SkipStep) /\ WF_vars(SkipEnd)

(***************************************************************************)
(* Properties of StepCycle                                                 *)
(***************************************************************************)
\* operand classes that consume a next word when the operand is executed
NextWordClasses == (16..23) \cup {26, 30, 31}

IsBasic(word) == word % 32 # 0

\* the number of operands of an instruction word that consume a next word
NextWords(word) ==
    LET d == decodeOpcode(word)
    IN  (IF d.a \in NextWordClasses THEN 1 ELSE 0)
        + (IF IsBasic(word) /\ d.b \in NextWordClasses THEN 1 ELSE 0)

IsValid(word) == decodeOpcode(word).op \in DOMAIN cycleCostMap

BaseCost(word) == cycleCostMap[decodeOpcode(word).op]

RECURSIVE Chain(_, _, _, _)
\* the chain that starts at pc: its length in words and in instructions
Chain(m, pc, words, instrs) ==
    LET word == Load(m, Word(pc + words))
        words1 == words + 1 + NextWords(word)
    IN  IF IsIfx(decodeOpcode(word).op)
        THEN Chain(m, pc, words1, instrs + 1)
        ELSE [words |-> words1, instrs |-> instrs + 1]

StoreFailed == call.ret.kind \in {"ProtectionError", "CallbackError"}

\* the call just made worked on a valid instruction other than HCF, and not
\* on the skip that follows a failed IFx
Timed ==
    /\ call.op = "StepCycle"
    /\ insn.latched = 0
    /\ IsValid(insn.word)
    /\ decodeOpcode(insn.word).op # opcodeExtHCF
    /\ insn.ifAt = 0

\* C1: once a StepCycle call has returned an error, every later call returns
\* that same error and changes nothing in the State (registers, memory,
\* region lists, scratch)
C1_ErrorIsLatched ==
    [][(call.op = "StepCycle" /\ call.ret # NoError)
           => (call'.ret = call.ret /\ state' = state)]_vars

C1_Witness ==
    /\ call.ret.kind = "CallbackError"
    /\ insn.latched >= 2
    /\ state.step = stateStepExecute

C3_SkipLandsAfterChain ==
    (call.op = "StepCycle" /\ insn.ifAt # 0 /\ insn.done)
        => PC(state) = Word(insn.chainPC + Chain(state.Ram, insn.chainPC, 0, 0).words)

\* C4: an IFx that holds costs 2 cycles plus its next words and hands over to
\* the next instruction; one that fails costs one further cycle per
\* instruction of the chain, and the PC moves past the chain in the last
\* of these cycles and not before
C4_IfxCycles ==
    (call.op = "StepCycle" /\ insn.latched = 0 /\ IsIfx(decodeOpcode(insn.word).op)) =>
        LET k == NextWords(insn.word)
            chain == Chain(state.Ram, insn.chainPC, 0, 0)
        IN  IF insn.ifAt = 0
            THEN /\ insn.n <= 2 + k
                 /\ insn.done <=> insn.n = 2 + k
                 /\ insn.done => PC(state) = Word(insn.pc + 1 + k)
            ELSE /\ insn.ifAt = 2 + k
                 /\ insn.n <= 2 + k + chain.instrs
                 /\ insn.done <=> insn.n = 2 + k + chain.instrs
                 /\ IF insn.done
                    THEN PC(state) = Word(insn.chainPC + chain.words)
                    ELSE PC(state) = insn.chainPC

(***************************************************************************)
(* Properties of the memory interface.  Ranges are read here as sets of    *)
(* addresses below 0x10000, in unbounded arithmetic.                       *)
(***************************************************************************)
InRange(start, length, addr) == start <= addr /\ addr < start + length

Overlap(r, r2) == r.Start < r2.Start + r2.Length /\ r2.Start < r.Start + r.Length

\* the mapped regions that hold addr
MappedAt(m, addr) ==
    {i \in 1..Len(m.mapped) : InRange(m.mapped[i].Start, m.mapped[i].Length, addr)}

InProtectedList(m, addr) ==
    \E i \in 1..Len(m.protected) : InRange(m.protected[i].Start, m.protected[i].Length, addr)

\* a Store at addr, were nothing mapped over it, is refused and writes nothing
Guarded(m, addr) ==
    Store([m EXCEPT !.mapped = <<>>], addr, StoreValue)
        = [m |-> [m EXCEPT !.mapped = <<>>], err |-> ProtectionError(addr)]

CheckAddrs == (0..7) \cup {65534, 65535}

\* C5: Store delegates to the store callback of a mapped region holding addr;
\* otherwise, if addr lies in a region of the protected list, it returns
\* ProtectionError{addr} and changes nothing; otherwise it writes
\* backing[addr] = v and returns nil.
C5_StoreOrder ==
    call.op = "Store" =>
        LET m == call.pre
            after == [m |-> state.Ram, err |-> call.ret]
        IN  IF MappedAt(m, call.p1) # {}
            THEN \E i \in MappedAt(m, call.p1) :
                     after = DevSet(m, m.mapped[i].dev, call.p1 - m.mapped[i].Start, call.p2)
            ELSE IF InProtectedList(m, call.p1)
            THEN after = [m |-> m, err |-> ProtectionError(call.p1)]
            ELSE after = [m |-> [m EXCEPT !.ram = CellSet(@, call.p1, call.p2)],
                          err |-> NoError]

\* C6: for an address in a mapped region (one that ends at 0x10000 included)
\* Load returns the region's load callback at addr-start and Store calls its
\* store callback, neither touching the backing store; for an address in no
\* mapped region Load returns backing[addr].
C6_MappedAccess ==
    LET m == call.pre
    IN  /\ call.op = "Load" =>
               IF MappedAt(m, call.p1) # {}
               THEN \E i \in MappedAt(m, call.p1) :
                        call.val = DevGet(m, m.mapped[i].dev, call.p1 - m.mapped[i].Start)
               ELSE call.val = CellGet(m.ram, call.p1)
        /\ (call.op = "Store" /\ MappedAt(m, call.p1) # {}) =>
               /\ state.Ram.ram = m.ram
               /\ \E i \in MappedAt(m, call.p1) :
                      [m |-> state.Ram, err |-> call.ret]
                          = DevSet(m, m.mapped[i].dev, call.p1 - m.mapped[i].Start, call.p2)

\* C7: after MemProtect(start, length, true) returns nil, a Store to any
\* unmapped address of [start, start+length) returns ProtectionError for it
\* and changes nothing, and every address protected before is still protected.
C7_ProtectCovers ==
    (call.op = "MemProtect" /\ call.prot /\ call.ret = NoError) =>
        \A addr \in CheckAddrs :
            /\ (InRange(call.p1, call.p2, addr) /\ MappedAt(state.Ram, addr) = {}) =>
                   Store(state.Ram, addr, StoreValue)
                       = [m |-> state.Ram, err |-> ProtectionError(addr)]
            /\ Guarded(call.pre, addr) => Guarded(state.Ram, addr)

\* C8: after MemProtect(start, length, false) returns nil, every address of
\* [start, start+length) is writable and every address outside it has the
\* protection status it had before the call.
C8_UnprotectFrame ==
    (call.op = "MemProtect" /\ ~call.prot /\ call.ret = NoError) =>
        \A addr \in CheckAddrs :
            IF InRange(call.p1, call.p2, addr)
            THEN ~Guarded(state.Ram, addr)
            ELSE Guarded(state.Ram, addr) <=> Guarded(call.pre, addr)

\* C9: MapRegion returns nil exactly when start+length <= 0x10000 and the
\* range intersects no mapped region; on an error the mapped list is
\* unchanged; no two mapped regions overlap.
C9_MapIffDisjoint ==
    /\ call.op = "MapRegion" =>
           /\ call.ret = NoError <=>
                  /\ call.p1 + call.p2 <= WordSize
                  /\ \A i \in 1..Len(call.pre.mapped) :
                         ~Overlap(call.pre.mapped[i], Region(call.p1, call.p2))
           /\ call.ret # NoError => state.Ram.mapped = call.pre.mapped
    /\ \A i, j \in 1..Len(state.Ram.mapped) :
           i # j => ~Overlap(state.Ram.mapped[i], state.Ram.mapped[j])

\* C10: MapRegion(start, length) followed by UnmapRegion(start, length), both
\* returning nil, leaves the mapped list as it was before the pair.
C10_MapUnmapRestores ==
    [][(/\ call.op = "MapRegion" /\ call.ret = NoError
        /\ call'.op = "UnmapRegion" /\ call'.ret = NoError
        /\ call'.p1 = call.p1 /\ call'.p2 = call.p2)
       => state'.Ram.mapped = call.pre.mapped]_vars

(***************************************************************************)
(* Properties of single instructions                                       *)
(***************************************************************************)
\* the address the operand encoding gives operand a of the instruction
\* fetched at pc, on the registers and memory of that moment
AddressOfA(regs, mem, pc, a) ==
    IF a <= 7 THEN Address(addressTypeRegister, a)
    ELSE IF a <= 15 THEN Address(addressTypeMemory, regs[a - 8])
    ELSE IF a <= 23
    THEN Address(addressTypeMemory, Word(Load(mem, Word(pc + 1)) + regs[a - 16]))
    ELSE IF a <= 25 THEN Address(addressTypeMemory, regs[registerSP])
    ELSE IF a = 26
    THEN Address(addressTypeMemory, Word(regs[registerSP] + Load(mem, Word(pc + 1))))
    ELSE IF a <= 29 THEN Address(addressTypeRegister, a - 27 + registerSP)
    ELSE IF a = 30 THEN Address(addressTypeMemory, Load(mem, Word(pc + 1)))
    ELSE AddressNone

\* the last call ended the instruction with opcode o
Ended(o) ==
    /\ call.op = "StepCycle"
    /\ insn.latched = 0
    /\ insn.done
    /\ decodeOpcode(insn.word).op = o

\* every register outside keep is as it was when the instruction was fetched
RegistersKept(keep) ==
    \A r \in 0..(registerCount - 1) : r \in keep \/ state.Registers[r] = insn.regs[r]

\* C14: IAG a stores IA into the register or memory cell that a names and
\* into nothing else; nothing is written when a is a literal.
C14_IagWritesA ==
    Ended(opcodeExtIAG) =>
        LET target == AddressOfA(insn.regs, insn.mem, insn.pc, decodeOpcode(insn.word).a)
        IN  IF target.addressType = addressTypeRegister
            THEN /\ state.Registers[target.index] = insn.regs[registerIA]
                 /\ RegistersKept({target.index, registerPC, registerSP})
            ELSE IF target.addressType = addressTypeMemory
            THEN /\ Load(state.Ram, target.index) = insn.regs[registerIA]
                 /\ RegistersKept({registerPC, registerSP})
            ELSE /\ RegistersKept({registerPC})
                 /\ state.Ram = insn.mem

\* the last call ended the instruction o B, C
AluEnded(o) == Ended(o) /\ insn.word = AluWord(o)

\* the operands b and a the instruction o B, C was fetched with, the EX of
\* that moment, and the destination and EX it left
OperandB == insn.regs[registerB]
OperandA == insn.regs[registerC]
EXBefore == insn.regs[registerEX]
Destination == state.Registers[registerB]

\* C15: SHL b, a leaves (b << a) mod 2^16 in b and ((b << a) >> 16) mod 2^16
\* in EX, b being the shifted value and a the count.
C15_ShlShiftsBByA ==
    AluEnded(opcodeSHL) =>
        LET b == OperandB
            a == OperandA
        IN  IF a >= 32 THEN Destination = 0 /\ EX(state) = 0
            ELSE IF a >= 16
            THEN Destination = 0 /\ EX(state) = (b * Pow2(a - 16)) % WordSize
            ELSE /\ Destination = (b * Pow2(a)) % WordSize
                 /\ EX(state) = ((b * Pow2(a)) \div WordSize) % WordSize

\* C16 as stated: DIV, MOD and DVI by zero leave 0 in the destination and
\* 0 in EX, whatever EX held, and return no error
C16_DivideByZeroClearsEX ==
    \A o \in {opcodeDIV, opcodeMOD, opcodeDVI} :
        (Timed /\ insn.word = AluWord(o) /\ OperandA = 0)
            => /\ call.ret = NoError
               /\ insn.done => (Destination = 0 /\ EX(state) = 0)

\* C16 as amended: DIV and DVI by zero leave 0 in the destination and 0 in
\* EX; MOD by zero leaves 0 in the destination and EX as it was; none of
\* them returns an error, and each ends in its third call
C16_DivideByZero ==
    \A o \in {opcodeDIV, opcodeMOD, opcodeDVI} :
        (Timed /\ insn.word = AluWord(o) /\ OperandA = 0)
            => /\ call.ret = NoError
               /\ insn.done <=> insn.n = 3
               /\ insn.done =>
                    /\ Destination = 0
                    /\ EX(state) = IF o = opcodeMOD THEN EXBefore ELSE 0

C16_Witness ==
    /\ AluEnded(opcodeDIV)
    /\ OperandA = 0
    /\ OperandB = 32769
    /\ EXBefore = 65535
    /\ EX(state) = 0
    /\ Destination = 0

\* the signed reading of a word
Signed(w) == IF w >= 32768 THEN w - WordSize ELSE w

\* bits 0..15 of (x << 16) / y for signed 16-bit x and y # 0, the quotient
\* truncated toward zero
SignedShiftedQuotient(x, y) ==
    LET q == Div32([hi |-> Abs(x), lo |-> 0], Abs(y))
    IN  IF (x < 0) # (y < 0) THEN Neg32(q).lo ELSE q.lo

\* C17: MLI and DVI work on the signed readings of b and a: MLI leaves the
\* low 16 bits of the signed product in b and its bits 16..31 in EX; DVI
\* (a # 0) leaves the signed quotient truncated toward zero in b and
\* ((b << 16) / a) mod 2^16, computed on the signed values, in EX.
C17_SignedMulDiv ==
    /\ AluEnded(opcodeMLI) =>
          /\ Destination = ToWord(Signed(OperandB) * Signed(OperandA))
          /\ EX(state) = ToWord(FloorDiv(Signed(OperandB) * Signed(OperandA), WordSize))
    /\ (AluEnded(opcodeDVI) /\ OperandA # 0) =>
          /\ Destination = ToWord(TruncDiv(Signed(OperandB), Signed(OperandA)))
          /\ EX(state) = SignedShiftedQuotient(Signed(OperandB), Signed(OperandA))

\* C18: ADD b, a leaves (b + a) mod 2^16 in b and 1 in EX if b + a >= 2^16,
\* else 0; SUB b, a leaves (b - a) mod 2^16 in b and 0xFFFF in EX if a > b,
\* else 0.
C18_AddSubCarry ==
    /\ AluEnded(opcodeADD) =>
          /\ Destination = (OperandB + OperandA) % WordSize
          /\ EX(state) = IF OperandB + OperandA >= WordSize THEN 1 ELSE 0
    /\ AluEnded(opcodeSUB) =>
          /\ Destination = (OperandB - OperandA + WordSize) % WordSize
          /\ EX(state) = IF OperandA > OperandB THEN 65535 ELSE 0

C18_Witness ==
    /\ AluEnded(opcodeSUB)
    /\ OperandB = 1
    /\ OperandA = 65535
    /\ EXBefore = 0
    /\ Destination = 2
    /\ EX(state) = 65535

\* the call just made worked on a basic instruction that has a stack
\* operand and writes no register but through its operands
OnStack ==
    /\ Timed
    /\ decodeOpcode(insn.word).op \in StackOps
    /\ decodeOpcode(insn.word).b \in StackOperandsB
    /\ decodeOpcode(insn.word).a \in StackOperandsA
    /\ operandPushPop \in {decodeOpcode(insn.word).a, decodeOpcode(insn.word).b}
       \/ operandPeek \in {decodeOpcode(insn.word).a, decodeOpcode(insn.word).b}

\* SP once operand a of the instruction has been decoded
SPAfterA ==
    IF decodeOpcode(insn.word).a = operandPushPop
    THEN (insn.regs[registerSP] + 1) % WordSize
    ELSE insn.regs[registerSP]

\* SP once operand b has been decoded too
SPAfterB ==
    IF decodeOpcode(insn.word).b = operandPushPop
    THEN (SPAfterA + WordSize - 1) % WordSize
    ELSE SPAfterA

\* C20: PUSH (0x18 in b) decrements SP modulo 2^16 and then addresses
\* memory[SP]; POP (0x18 in a) addresses memory[SP] and then increments SP
\* modulo 2^16; PEEK (0x19) addresses memory[SP] and leaves SP alone; over
\* all the calls an instruction takes, SP moves once for each PUSH or POP.
C20_StackOperands ==
    OnStack =>
        /\ SP(state) \in {insn.regs[registerSP], SPAfterA, SPAfterB}
        /\ insn.done =>
             /\ SP(state) = SPAfterB
             /\ decodeOpcode(insn.word).a \in {operandPushPop, operandPeek}
                   => state.a = Load(insn.mem, insn.regs[registerSP])
             /\ decodeOpcode(insn.word).b = operandPushPop
                   => state.address = Address(addressTypeMemory, SPAfterB)
             /\ decodeOpcode(insn.word).b = operandPeek
                   => state.address = Address(addressTypeMemory, SPAfterA)

\* DIV PUSH, [next word] with SP = 0: three cycles, SP ends at 0xFFFF
C20_Witness ==
    /\ OnStack
    /\ insn.done
    /\ insn.word = Enc(opcodeDIV, operandPushPop, operandNextWordAddress)
    /\ insn.regs[registerSP] = 0
    /\ insn.n = 4
    /\ SP(state) = 65535
    /\ state.address = Address(addressTypeMemory, 65535)

(***************************************************************************)
(* Properties of the Machine                                               *)
(***************************************************************************)
\* the device whose callbacks serve addr in memory m, "" when addr is not mapped
DeviceAt(m, addr) ==
    IF MappedIndex(m, addr) = 0 THEN "" ELSE m.mapped[MappedIndex(m, addr)].dev

\* the machine runs with both peripherals mapped and a driver at its loop
Running(M, S) ==
    /\ M.stopped # "nil"
    /\ M.driver = "select"
    /\ M.videoMapped
    /\ M.input = "open"
    /\ DeviceAt(S.Ram, VideoBase) = "video"
    /\ DeviceAt(S.Ram, KeyboardBase) = "keyboard"

\* C11: a Start that follows a Stop of the running machine succeeds (the
\* terminal permitting): video is mapped at 0x8000 again, the keyboard at
\* 0x9000, and a new driver runs; so for every round of Start and Stop.
C11_StartAfterStop ==
    [][(/\ call.op = "Stop"
        /\ call.ret # ErrorsNew("Machine has not started")
        /\ call'.op = "Start"
        /\ call'.ret # ErrorsNew("termbox.Init"))
          => (call'.ret = NoError /\ Running(machine', state'))]_vars

\* the step is the main thread's return from the call named c
Returns(c) ==
    /\ call'.op = c
    /\ machine'.main = "idle"
    /\ ncalls' = ncalls + 1 \/ machine.main = "wait"

C13_DriverError ==
    [][/\ machine'.steps = machine.steps + 1
            => /\ machine.stoperr = NoError
               /\ IF state'.lastError # NoError
                  THEN /\ machine'.stoperr = MachineError(state'.lastError, PC(state'))
                       /\ machine'.driver = "post"
                       /\ machine'.polls = machine.polls
                       /\ machine'.cycleCount = machine.cycleCount
                  ELSE /\ machine'.polls = machine.polls + 1
                       /\ machine'.cycleCount = machine.cycleCount + 1
       /\ machine'.posts <= 1
       /\ machine'.returns <= machine'.posts
       /\ machine'.posts = machine.posts + 1
            => /\ machine'.result = machine.stoperr
               /\ machine'.stopped = "full"
       /\ (machine.stopped = "full" /\ machine.result # NoError
             /\ (Returns("Stop") \/ Returns("HasError")))
            => /\ call'.ret = machine.result
               /\ machine'.returns = 1
               /\ machine'.stopped = "nil"
               /\ machine'.driver = "none"
       /\ ((Returns("Stop") \/ Returns("HasError")) /\ call'.ret.kind = "MachineError")
            => machine'.returns = machine.returns + 1
       /\ (Returns("HasError") /\ machine.stopped = "empty")
            => /\ call'.ret = NoError
               /\ machine' = machine
               /\ state' = state]_vars

\* HasError returned the error of a driver that failed in its third cycle
C13_Witness ==
    /\ call.op = "HasError"
    /\ call.ret = MachineError(state.lastError, PC(state))
    /\ machine.cycleCount = 2
    /\ machine.steps = 3
    /\ machine.polls = 2
    /\ machine.returns = 1
    /\ machine.stopped = "nil"

\* C19: Start on a machine that has started returns an error and changes
\* nothing; Stop and HasError on an idle machine return an error in the same
\* step and change nothing.
C19_WrongStateCalls ==
    [][/\ (ncalls' = ncalls + 1 /\ call'.op = "Start" /\ machine.stopped # "nil")
            => /\ call'.ret = ErrorsNew("Machine has already started")
               /\ machine' = machine
               /\ state' = state
       /\ (ncalls' = ncalls + 1 /\ call'.op # "Start" /\ machine.stopped = "nil")
            => /\ call'.op \in {"Stop", "HasError"}
               /\ call'.ret = ErrorsNew("Machine has not started")
               /\ machine' = machine
               /\ state' = state]_vars

\* Start was refused on a machine whose driver has run a cycle
C19_Witness ==
    /\ call.op = "Start"
    /\ call.ret = ErrorsNew("Machine has already started")
    /\ machine.driver = "select"
    /\ machine.cycleCount = 1
    /\ machine.stopped = "empty"

(***************************************************************************)
(* Properties of the write-back and of the special instructions            *)
(***************************************************************************)
\* the basic opcodes whose case in the switch calls SetEX
EXSetters ==
    {opcodeADD, opcodeSUB, opcodeMUL, opcodeMLI, opcodeDIV, opcodeDVI, opcodeSHR,
     opcodeASR, opcodeSHL, opcodeADX, opcodeSBX}

\* the call just made worked on a basic instruction, not an IFx, whose
\* destination b is the next-word literal (b has five bits: 0x1f is the only
\* literal it can name)
LiteralDestination ==
    /\ Timed
    /\ IsBasic(insn.word)
    /\ ~IsIfx(decodeOpcode(insn.word).op)
    /\ decodeOpcode(insn.word).b = operandNextWord

\* the PC and the SP an instruction ends with when it writes neither
OperandsDecoded ==
    /\ PC(state) = Word(insn.pc + 1 + NextWords(insn.word))
    /\ SP(state) = SPAfterA

\* C21 as stated: an instruction of any basic opcode whose destination is a
\* literal returns no error and changes no register (EX, I and J included)
\* and no memory, but for the PC and SP advances of its operand decode
C21_LiteralDestinationChangesNothing ==
    LiteralDestination =>
        /\ call.ret = NoError
        /\ state.Ram = insn.mem
        /\ RegistersKept({registerPC, registerSP})
        /\ insn.done => OperandsDecoded

\* C21 as amended: the write to the literal is dropped (no error, memory and
\* the registers A, B, C, X, Y, Z and IA unchanged, PC and SP advanced by
\* the operand decode only) and the rest of the instruction takes place: in
\* its last cycle an opcode that sets EX may change EX, and STI increments I
\* and J; no other opcode changes EX, I or J
C21_LiteralDestination ==
    LiteralDestination =>
        /\ call.ret = NoError
        /\ state.Ram = insn.mem
        /\ RegistersKept({registerPC, registerSP, registerEX, registerI, registerJ})
        /\ ~insn.done => RegistersKept({registerPC, registerSP})
        /\ insn.done =>
             /\ OperandsDecoded
             /\ decodeOpcode(insn.word).op \notin EXSetters => EX(state) = EXBefore
             /\ \A r \in {registerI, registerJ} :
                    state.Registers[r] =
                        IF decodeOpcode(insn.word).op = opcodeSTI
                        THEN Word(insn.regs[r] + 1) ELSE insn.regs[r]

\* ADD 0x1f, POP: nothing is stored, SP has moved and EX went from 1 to 0
C21_Witness ==
    /\ LiteralDestination
    /\ insn.done
    /\ insn.word = Enc(opcodeADD, operandNextWord, operandPushPop)
    /\ EXBefore = 1
    /\ EX(state) = 0
    /\ SP(state) = DataBase + 2
    /\ state.address = AddressNone

\* the opcodes of the instruction tables: basic opcodes, and special codes
BasicTable == (1..23) \cup {26, 27}
SpecialTable == {1, 7, 8, 9, 10, 16, 17, 18}

InTables(word) ==
    IF word % 32 # 0 THEN word % 32 \in BasicTable
    ELSE (word \div 32) % 32 \in SpecialTable

\* the opcode number OpcodeError carries: special codes are offset by 0x100
OpcodeNumber(word) ==
    IF word % 32 # 0 THEN word % 32 ELSE ((word \div 32) % 32) + opcodeExtendedOffset

\* the call just made fetched an instruction word
FetchedNow == call.op = "StepCycle" /\ insn.latched = 0 /\ insn.n = 1

\* C22: the StepCycle that fetches a word whose opcode is not in the tables
\* returns OpcodeError for it in that same call and latches it; PC has
\* advanced by one and no other register and no memory cell has changed (no
\* operand was decoded).  A word whose opcode is in the tables is never
\* answered with OpcodeError.
C22_UnknownOpcode ==
    /\ FetchedNow =>
          IF InTables(insn.word)
          THEN call.ret.kind # "OpcodeError"
          ELSE /\ call.ret = OpcodeError(OpcodeNumber(insn.word))
               /\ state.lastError = call.ret
               /\ PC(state) = Word(insn.pc + 1)
               /\ RegistersKept({registerPC})
               /\ state.Ram = insn.mem
               /\ state.step = stateStepFetch
    /\ (call.op = "StepCycle" /\ call.ret.kind = "OpcodeError")
          => (~InTables(insn.word) /\ insn.n = 1)

\* basic opcode 0x18 with two next-word operands: neither word is consumed
C22_Witness ==
    /\ FetchedNow
    /\ insn.word = Enc(24, operandNextWord, operandNextWord)
    /\ insn.regs = PresetRegisters
    /\ call.ret = OpcodeError(24)
    /\ PC(state) = 1
    /\ state.lastError = OpcodeError(24)

\* the value the operand encoding gives operand a of the instruction
\* fetched at pc, on the registers and memory of that moment (the PC an
\* operand reads is that of the word after the instruction word)
ValueOfA(regs, mem, pc, a) ==
    IF a = operandNextWord THEN Load(mem, Word(pc + 1))
    ELSE IF a > operandNextWord THEN ToWord(a - 33)
    ELSE IF a = operandPC THEN Word(pc + 1)
    ELSE IF AddressOfA(regs, mem, pc, a).addressType = addressTypeRegister
    THEN regs[AddressOfA(regs, mem, pc, a).index]
    ELSE Load(mem, AddressOfA(regs, mem, pc, a).index)

\* the address of the instruction that follows the one in flight
NextInstruction == Word(insn.pc + 1 + NextWords(insn.word))

\* the call just made worked on the special instruction with opcode o
Special(o) == Timed /\ decodeOpcode(insn.word).op = o

\* the cells whose content is compared with what it was at the fetch
FrameCells ==
    (0..7) \cup ((DataBase - 2)..(DataBase + 18)) \cup {2 * DataBase, 65533, 65534, 65535}

\* memory reads as it did when the instruction was fetched, but at the cells
\* of written
MemoryKept(written) ==
    /\ state.Ram.protected = insn.mem.protected
    /\ state.Ram.mapped = insn.mem.mapped
    /\ \A addr \in FrameCells \ written : Load(state.Ram, addr) = Load(insn.mem, addr)

\* a store to addr through the memory m of the fetch is refused
Refused(m, addr) ==
    IF MappedAt(m, addr) # {} THEN DeviceAt(m, addr) = "rom" ELSE InProtectedList(m, addr)

\* C23: JSR a, in its last cycle (the third, plus one if a takes a next
\* word) and not before, decrements SP modulo 2^16, stores the address of
\* the next instruction at the new memory[SP] and sets PC to the value of a;
\* nothing else changes.  If that cell is protected the call returns
\* ProtectionError for it and the cell is unchanged.
C23_Jsr ==
    Special(opcodeExtJSR) =>
        LET last == 3 + NextWords(insn.word)
            sp == Word(SPAfterA + WordSize - 1)
        IN  /\ insn.n <= last
            /\ insn.n < last =>
                 /\ call.ret = NoError /\ ~insn.done
                 /\ state.Ram = insn.mem
                 /\ RegistersKept({registerPC, registerSP})
                 /\ SP(state) \in {insn.regs[registerSP], SPAfterA}
                 /\ PC(state) \in {Word(insn.pc + 1), NextInstruction}
            /\ insn.n = last =>
                 IF Refused(insn.mem, sp)
                 THEN /\ call.ret = IF MappedAt(insn.mem, sp) = {}
                                    THEN ProtectionError(sp)
                                    ELSE CallbackError(sp - DataBase)
                      /\ state.lastError = call.ret
                      /\ MemoryKept({})
                 ELSE /\ call.ret = NoError /\ insn.done
                      /\ SP(state) = sp
                      /\ Load(state.Ram, sp) = NextInstruction
                      /\ PC(state) = ValueOfA(insn.regs, insn.mem, insn.pc,
                                              decodeOpcode(insn.word).a)
                      /\ RegistersKept({registerPC, registerSP})
                      /\ MemoryKept({sp})

\* JSR 0x1000 with SP = 0x1001: the return address 2 is at memory[0x1000]
C23_Witness ==
    /\ Special(opcodeExtJSR)
    /\ insn.done
    /\ insn.n = 4
    /\ insn.word = Enc(0, 1, operandNextWord)
    /\ insn.regs = PresetRegisters
    /\ PC(state) = DataBase
    /\ SP(state) = DataBase
    /\ Load(state.Ram, DataBase) = 2

\* JSR with SP = 0x1001 and 0x1000 protected: ProtectionError, cell unchanged
C23_WitnessProtected ==
    /\ Special(opcodeExtJSR)
    /\ call.ret = ProtectionError(DataBase)
    /\ Load(state.Ram, DataBase) = 0

\* the error a refused store to addr returns
Refusal(m, addr) ==
    IF MappedAt(m, addr) = {} THEN ProtectionError(addr)
    ELSE CallbackError(addr - m.mapped[MappedIndex(m, addr)].Start)

\* C24: INT a, in its last cycle (the fourth, plus one if a takes a next
\* word) and not before, pushes the address of the next instruction and then
\* the old A (SP goes down by 2), then sets A to the value of a and PC to IA.
\* A push that is refused ends the call with that error, latched.  IAS a
\* sets IA to the value of a and changes no other register but the PC and SP
\* of its operand decode.
C24_IntIas ==
    /\ Special(opcodeExtINT) =>
        LET last == 4 + NextWords(insn.word)
            sp1 == Word(SPAfterA + WordSize - 1)
            sp2 == Word(SPAfterA + WordSize - 2)
        IN  /\ insn.n <= last
            /\ insn.n < last =>
                 /\ call.ret = NoError /\ ~insn.done
                 /\ state.Ram = insn.mem
                 /\ RegistersKept({registerPC, registerSP})
                 /\ SP(state) \in {insn.regs[registerSP], SPAfterA}
            /\ insn.n = last =>
                 IF Refused(insn.mem, sp1)
                 THEN /\ call.ret = Refusal(insn.mem, sp1)
                      /\ state.lastError = call.ret
                      /\ MemoryKept({})
                 ELSE IF Refused(insn.mem, sp2)
                 THEN /\ call.ret = Refusal(insn.mem, sp2)
                      /\ state.lastError = call.ret
                      /\ MemoryKept({sp1})
                 ELSE /\ call.ret = NoError /\ insn.done
                      /\ SP(state) = sp2
                      /\ Load(state.Ram, sp1) = NextInstruction
                      /\ Load(state.Ram, sp2) = insn.regs[registerA]
                      /\ state.Registers[registerA] =
                             ValueOfA(insn.regs, insn.mem, insn.pc, decodeOpcode(insn.word).a)
                      /\ PC(state) = insn.regs[registerIA]
                      /\ RegistersKept({registerPC, registerSP, registerA})
                      /\ MemoryKept({sp1, sp2})
    /\ Special(opcodeExtIAS) =>
        /\ call.ret = NoError
        /\ insn.done <=> insn.n = 1 + NextWords(insn.word)
        /\ ~insn.done => RegistersKept({registerPC, registerSP})
        /\ insn.done =>
             /\ IA(state) = ValueOfA(insn.regs, insn.mem, insn.pc, decodeOpcode(insn.word).a)
             /\ RegistersKept({registerPC, registerSP, registerIA})
             /\ OperandsDecoded
             /\ state.Ram = insn.mem

\* INT 0x1002 with SP = 0: the stack wraps, 2 is at 0xFFFF and the old A at
\* 0xFFFE
C24_Witness ==
    /\ Special(opcodeExtINT)
    /\ insn.done
    /\ insn.n = 5
    /\ insn.word = Enc(0, 8, operandNextWord)
    /\ insn.regs[registerSP] = 0
    /\ SP(state) = 65534
    /\ Load(state.Ram, 65535) = 2
    /\ Load(state.Ram, 65534) = 5
    /\ state.Registers[registerA] = DataBase + 2
    /\ PC(state) = 64

\* INT with SP = 0x1011 over the protected region at 0x1000: the push of the
\* PC lands at 0x1010, the push of A at 0x100F is refused
C24_WitnessSecondPush ==
    /\ Special(opcodeExtINT)
    /\ call.ret = ProtectionError(DataBase + 15)
    /\ state.lastError = call.ret
    /\ Load(state.Ram, DataBase + 16) = 1

\* the address the operand encoding gives destination b of the basic
\* instruction in flight: b is decoded after a, so its next word follows a's
\* and it sees the SP that a left
AddressOfB ==
    AddressOfA([insn.regs EXCEPT ![registerSP] = SPAfterB], insn.mem,
               Word(insn.pc + (IF decodeOpcode(insn.word).a \in NextWordClasses THEN 1 ELSE 0)),
               decodeOpcode(insn.word).b)

\* C25: STI b, a sets b to a and then increments I and J modulo 2^16: a
\* destination that is register I or J ends as a + 1, and a destination
\* addressed through I or J is the cell that I or J named before the
\* increment.
C25_StiOrder ==
    (Ended(opcodeSTI) /\ decodeOpcode(insn.word).b # operandNextWord) =>
        LET val == ValueOfA(insn.regs, insn.mem, insn.pc, decodeOpcode(insn.word).a)
            incremented(r) == Word(insn.regs[r] + 1)
        IN  IF AddressOfB.addressType = addressTypeMemory
            THEN /\ Load(state.Ram, AddressOfB.index) = val
                 /\ state.Registers[registerI] = incremented(registerI)
                 /\ state.Registers[registerJ] = incremented(registerJ)
            ELSE \A r \in {registerI, registerJ} :
                     state.Registers[r] =
                         IF AddressOfB.index = r THEN Word(val + 1) ELSE incremented(r)

(***************************************************************************)
(* Properties of the keyboard                                              *)
(***************************************************************************)
\* the step is a cycle of the driver: StepCycle, and PollKeys if it went well
Cycle == machine'.steps = machine.steps + 1

\* Keyboard.words
Ring(S) == S.Ram.bufs.keyboard

\* the step's poll found ring, cursor and channel as they are in the first
\* three arguments and left them changed
PollChanged(ring, cursor, keys) ==
    Ring(state') # ring \/ machine'.offset # cursor \/ machine'.keys # keys

\* the step's poll moved the event of the channel to ring[cursor]
PollTook(ring, cursor, keys) ==
    /\ keys # <<>>
    /\ Ring(state') = CellSet(ring, cursor, Word(keys[1]))
    /\ machine'.offset = (cursor + 1) % KeyboardLength
    /\ machine'.keys = <<>>

\* C26: the driver polls once after each StepCycle that returned nil and
\* not after one that failed.  A poll changes ring, cursor and channel only
\* when ring[cursor] is 0 and an event is pending, and then it moves that
\* event to ring[cursor] and advances the cursor modulo 16 (one slot per
\* cycle, never a slot that is not 0, the slots in the order of the events);
\* a poll that finds ring[cursor] = 0 and an event pending in the open
\* channel takes it.
C26_PollKeys ==
    [][Cycle =>
        LET ring == Ring(StepCycle(state).S)
            cursor == machine.offset
            keys == machine.keys
        IN  /\ machine'.polls = machine.polls + (IF state'.lastError = NoError THEN 1 ELSE 0)
            /\ PollChanged(ring, cursor, keys) =>
                 /\ state'.lastError = NoError
                 /\ CellGet(ring, cursor) = 0
                 /\ PollTook(ring, cursor, keys)
            /\ (state'.lastError = NoError /\ CellGet(ring, cursor) = 0
                  /\ machine.input = "open" /\ keys # <<>>)
                 => PollChanged(ring, cursor, keys)]_vars

\* the step puts the key-up event of key in the channel
UpSent(key) == machine'.keys = <<key + KeyUp>> /\ machine.keys # machine'.keys

\* C27: the key-up event of a key enters the channel only when the last
\* event offered for that key was its key-down and the channel took it (so
\* never after a key-down that was dropped, and once at most for each
\* key-down), and it enters the channel after that key-down has left it.
\* RegisterKeyTyped and RegisterKeyPressed return in the step they are
\* called in, whether the channel takes the event or not.
C27_KeyUpFollowsKeyDown ==
    [][/\ \A key \in Keys :
            UpSent(key) =>
                /\ machine.fate[key] = "down"
                /\ machine.keys = <<>>
                /\ machine'.fate[key] = "up"
       /\ (ncalls' = ncalls + 1 /\ call'.op \in {"RegisterKeyTyped", "RegisterKeyPressed"})
            => /\ machine.main = "idle" /\ machine'.main = "idle"
               /\ machine'.keys \in {machine.keys, <<call'.p1>>}
               /\ machine'.keys # machine.keys => machine.keys = <<>>]_vars

\* key 128 went down, key 129 was dropped behind it and its release sent
\* nothing; the release of 128 waited for the poll and then sent its key up
C27_Witness ==
    /\ call.op = "RegisterKeyReleased"
    /\ machine.fate[128] = "up"
    /\ machine.fate[129] = "dropped"
    /\ ~machine.keysDown[129]
    /\ machine.keys = <<128 + KeyUp>>
    /\ CellGet(Ring(state), 0) = 128
    /\ machine.main = "idle"

(***************************************************************************)
(* Protecting and unprotecting the same range                              *)
(***************************************************************************)
\* the last two calls were MemProtect(r, true) and MemProtect(r, false) on
\* the same range r, both returning nil
ProtectThenUnprotect ==
    /\ call.op = "MemProtect" /\ call.prot /\ call.ret = NoError
    /\ call'.op = "MemProtect" /\ ~call'.prot /\ call'.ret = NoError
    /\ call'.p1 = call.p1 /\ call'.p2 = call.p2

\* no region of list p shares an address with the range
Apart(p, start, length) ==
    \A i \in 1..Len(p) : ~Overlap(p[i], Region(start, length))

Ascending(p) == \A i \in 1..(Len(p) - 1) : p[i].Start < p[i + 1].Start

\* no two regions of list p share an address
Disjoint(p) == \A i, j \in 1..Len(p) : i # j => ~Overlap(p[i], p[j])

\* C29: after any sequence of MemProtect, MapRegion and UnmapRegion calls the
\* protected list and the mapped list are each strictly ascending by start
\* address and the regions of each list are pairwise disjoint.
C29_ListsOrdered ==
    /\ Ascending(state.Ram.protected) /\ Disjoint(state.Ram.protected)
    /\ Ascending(state.Ram.mapped) /\ Disjoint(state.Ram.mapped)

(***************************************************************************)
(* ClockRate: String and Set                                               *)
(***************************************************************************)
\* x is a whole number of hertz below 1 KHz, or a whole number of KHz or
\* of MHz
ExactRate(x) == x > 0 /\ (x < 1000 \/ x % 1000 = 0)

\* C30: for every positive ClockRate x that is an exact number of Hz, KHz or
\* MHz, Set on the string String() gives for x returns nil and makes the
\* ClockRate x; Set returns an error on zero, on negative values and on
\* unknown suffixes and then leaves the ClockRate as it was.
C30_StringSetRoundTrip ==
    call.op = "Set" =>
        /\ \A x \in ClockRates :
               (ExactRate(x) /\ call.str = String(x)) =>
                   (call.ret = NoError /\ requestedRate = x)
        /\ call.str \in NonPositiveTexts \cup UnknownSuffixTexts =>
               (call.ret # NoError /\ requestedRate = call.p1)

(***************************************************************************)
(* Start that fails                                                        *)
(***************************************************************************)
\* this step is a Start that gets past the m.stopped test and returns an
\* error
StartFails ==
    /\ machine.main = "idle" /\ ncalls' = ncalls + 1
    /\ call'.op = "Start" /\ call'.ret # NoError
    /\ call'.ret # ErrorsNew("Machine has already started")

\* a region of device d is in the mapped list
InMappedList(m, d) == \E i \in 1..Len(m.mapped) : m.mapped[i].dev = d

\* C31: when Start returns an error of the terminal, of the video mapping or
\* of the keyboard mapping, it leaves the terminal closed, neither the video
\* nor the keyboard mapped or marked as mapped unless it was so before the
\* call, no driver running and the machine idle.
C31_StartReleases ==
    [][StartFails =>
          /\ ~machine'.terminal
          /\ machine'.videoMapped => machine.videoMapped
          /\ InMappedList(state'.Ram, "video") => InMappedList(state.Ram, "video")
          /\ machine'.input = "open" => machine.input = "open"
          /\ InMappedList(state'.Ram, "keyboard") => InMappedList(state.Ram, "keyboard")
          /\ machine'.driver = "none" /\ machine'.stopped = "nil"
          /\ machine'.main = "idle"]_vars

(***************************************************************************)
(* Who touches the State while the driver runs                             *)
(***************************************************************************)
\* the driver goroutine is between its launch and the posting of its result
DriverRunning == machine.driver # "none"

\* this step is a statement of the main thread
MainStep == machine'.main # machine.main \/ call' # call

\* C32: while the driver goroutine runs, no statement of the main thread
\* changes the State (registers, backing store, protected and mapped lists),
\* the keyboard ring or its cursor, or closes the event channel.
C32_DriverOwnsState ==
    [][(DriverRunning /\ MainStep) =>
          /\ state' = state
          /\ machine'.offset = machine.offset
          /\ machine.input = "open" => machine'.input = "open"]_vars

(***************************************************************************)
(* The driver and the clock                                                *)
(***************************************************************************)
\* this step runs a cycle of the driver: StepCycle is called
CycleRuns == machine'.steps = machine.steps + 1

\* this step runs a cycle in which StepCycle returns nil
CycleDone == machine'.cycleCount = machine.cycleCount + 1

\* C33: the driver advances nextTime by exactly one period after every
\* executed cycle; it triggers the next cycle at once when the clock has
\* reached nextTime and otherwise arms a timer for nextTime, which does not
\* fire earlier; cycle n never runs before the start time plus n periods;
\* and nextTime stays at the start time plus one period per executed cycle,
\* so a driver that is late goes through every cycle it missed.
C33_CyclesOnTime ==
    [][/\ CycleDone =>
              /\ machine'.nextTime = machine.nextTime + Period
              /\ IF machine'.now >= machine'.nextTime
                 THEN machine'.cycleChan = 1 /\ ~machine'.timer
                 ELSE machine'.cycleChan = 0 /\ machine'.timer
                          /\ machine'.timerAt = machine'.nextTime
       /\ CycleRuns =>
              /\ machine.now >= machine.startTime + machine.steps * Period
              /\ machine.now >= machine.nextTime
       /\ machine'.driver = "select" =>
              machine'.nextTime = machine'.startTime + machine'.cycleCount * Period]_vars

\* the driver has run three cycles, is still behind the clock and has the
\* next cycle pending
C33_Witness ==
    /\ machine.driver = "select"
    /\ machine.cycleCount = 3
    /\ machine.now >= machine.startTime + 3 * Period
    /\ machine.now >= machine.nextTime
    /\ machine.cycleChan = 1

\* the driver is ahead of the clock and waits for its timer
C33_WitnessTimer ==
    /\ machine.driver = "select"
    /\ machine.cycleCount = 2
    /\ machine.timer /\ machine.now < machine.timerAt
    /\ machine.startTime > 0

(***************************************************************************)
(* The cycles of an instruction before its last                            *)
(***************************************************************************)
\* this step is a StepCycle call that returns nil and leaves its
\* instruction unfinished
CycleBeforeLast ==
    /\ ncalls' = ncalls + 1
    /\ call'.op = "StepCycle" /\ call'.ret = NoError
    /\ insn'.latched = 0 /\ ~insn'.done

\* C34: a StepCycle call that is not the last one of its instruction stores
\* nothing in memory and changes no register other than PC and SP.
C34_NoPartialResult ==
    [][CycleBeforeLast =>
          /\ state'.Ram = state.Ram
          /\ \A r \in 0..(registerCount - 1) :
                 r \notin {registerPC, registerSP} =>
                     state'.Registers[r] = state.Registers[r]]_vars

\* a DIV, fetched and decoded, has spent its second cycle waiting
C34_Witness ==
    /\ call.op = "StepCycle" /\ call.ret = NoError
    /\ insn.latched = 0 /\ ~insn.done /\ insn.n = 2
    /\ decodeOpcode(insn.word).op = opcodeDIV
    /\ PC(state) # insn.pc

(***************************************************************************)
(* UnmapRegion and the region it names                                     *)
(***************************************************************************)
\* list p holds a region with exactly this start and length
HoldsExact(p, start, length) ==
    \E i \in 1..Len(p) : p[i].Start = start /\ p[i].Length = length

\* C35: UnmapRegion(start, length) returns nil exactly when the mapped list
\* holds a region with that start and that length, in whatever order the
\* regions were mapped; when it returns an error the mapped list is unchanged.
C35_UnmapExact ==
    call.op = "UnmapRegion" =>
        /\ call.ret = NoError <=> HoldsExact(call.pre.mapped, call.p1, call.p2)
        /\ call.ret # NoError => state.Ram.mapped = call.pre.mapped

(***************************************************************************)
(* The order of the operands of a basic instruction                        *)
(***************************************************************************)
\* the last call ended a basic instruction that writes its result to b
BasicEnded ==
    /\ call.op = "StepCycle" /\ insn.latched = 0 /\ insn.done
    /\ decodeOpcode(insn.word).op \in (opcodeSET..opcodeSTI) \cup {opcodeADX, opcodeSBX}

\* the registers a basic instruction may change besides its target
OwnRegisters ==
    {registerPC, registerSP, registerEX}
        \cup (IF decodeOpcode(insn.word).op = opcodeSTI THEN {registerI, registerJ} ELSE {})

\* C36: a basic instruction resolves a before b: a's next word comes first
\* and b's after it, a's POP moves SP before b's PUSH does, and a's value is
\* read on the registers and memory as fetched; the result goes to the
\* address b resolves to and to no other cell or register, and for SET it is
\* the value of a.
C36_OperandOrder ==
    BasicEnded =>
        LET val == ValueOfA(insn.regs, insn.mem, insn.pc, decodeOpcode(insn.word).a)
            isSET == decodeOpcode(insn.word).op = opcodeSET
        IN  /\ AddressOfB # Address(addressTypeRegister, registerPC) =>
                   PC(state) = NextInstruction
            /\ AddressOfB # Address(addressTypeRegister, registerSP) =>
                   SP(state) = SPAfterB
            /\ IF AddressOfB.addressType = addressTypeMemory
               THEN /\ MemoryKept({AddressOfB.index})
                    /\ RegistersKept(OwnRegisters)
                    /\ isSET => Load(state.Ram, AddressOfB.index) = val
               ELSE IF AddressOfB.addressType = addressTypeRegister
               THEN /\ MemoryKept({})
                    /\ RegistersKept(OwnRegisters \cup {AddressOfB.index})
                    /\ isSET => state.Registers[AddressOfB.index] = val
               ELSE /\ MemoryKept({})
                    /\ RegistersKept(OwnRegisters)

\* SET PUSH, POP has ended: SP is where it was and the cell there holds the
\* value that was read from it
C36_Witness ==
    /\ BasicEnded
    /\ insn.word = Enc(opcodeSET, operandPushPop, operandPushPop)
    /\ SP(state) = insn.regs[registerSP]
    /\ Load(state.Ram, SP(state)) = Load(insn.mem, insn.regs[registerSP])

\* SET [next word], next word has ended: the first word after the
\* instruction was taken as a's value and the second as b's address
C36_WitnessNextWords ==
    /\ BasicEnded
    /\ insn.word = Enc(opcodeSET, operandNextWordAddress, operandNextWord)
    /\ Load(insn.mem, Word(insn.pc + 1)) # Load(insn.mem, Word(insn.pc + 2))
    /\ Load(state.Ram, Load(insn.mem, Word(insn.pc + 2))) = Load(insn.mem, Word(insn.pc + 1))
    /\ Load(insn.mem, Load(insn.mem, Word(insn.pc + 2))) # Load(insn.mem, Word(insn.pc + 1))


\* C37: every scan that skipInstruction starts ends, whatever the memory
\* holds, also when every word decodes as an IFx
C37_ScanTerminates == (scan.at = "loop") ~> (scan.at = "done")


(***************************************************************************)
(* The triggers of the driver's cycles                                     *)
(***************************************************************************)
\* the cycle triggers outstanding: the value buffered in cycleChan and the
\* armed timer that has not been received from
Triggers(M) == M.cycleChan + (IF M.timer THEN 1 ELSE 0)

\* C38: while the driver runs exactly one cycle trigger is outstanding, a
\* value in cycleChan or an armed timer, never both; the send on cycleChan
\* inside runCycle never blocks the driver; and every cycle that returned
\* nil leaves the driver at its select with exactly one trigger for the
\* next cycle.
C38_OneTrigger ==
    [][/\ machine'.driver # "blocked"
       /\ machine'.driver = "select" => Triggers(machine') = 1
       /\ CycleDone =>
              /\ Triggers(machine) = 1
              /\ machine'.driver = "select"
              /\ Triggers(machine') = 1]_vars

\* the driver has run two cycles, the second one ahead of the clock: it
\* waits for its timer with cycleChan empty
C38_Witness ==
    /\ machine.driver = "select"
    /\ machine.cycleCount = 2
    /\ machine.timer /\ machine.cycleChan = 0

\* the driver has run two cycles, the second one late: the trigger of the
\* third is in cycleChan and no timer is armed
C38_WitnessSent ==
    /\ machine.driver = "select"
    /\ machine.cycleCount = 2
    /\ ~machine.timer /\ machine.cycleChan = 1


(***************************************************************************)
(* The ring after Keyboard.MapToMachine                                    *)
(***************************************************************************)
\* this step is a Keyboard.MapToMachine that returns nil
MapsKeyboard ==
    /\ machine.input # "open"
    /\ machine'.input = "open"
    /\ call'.op = "MapToMachine"
    /\ call'.ret = NoError

\* C39: after Keyboard.MapToMachine returns nil all 16 words of the ring
\* read as zero and the write cursor is 0, whatever the ring held before.
C39_MapClearsRing ==
    [][MapsKeyboard =>
          /\ machine'.offset = 0
          /\ \A i \in 0..(KeyboardLength - 1) :
                 Load(state'.Ram, call'.p1 + i) = 0]_vars


(***************************************************************************)
(* RegisterKeyReleased and a driver that has halted                        *)
(***************************************************************************)
\* the driver has left its loop on a machine error and posted it
Halted ==
    /\ machine.driver = "none"
    /\ machine.stopped = "full"
    /\ machine.result # NoError

\* C40: every RegisterKeyReleased call for a key whose key-down was accepted
\* eventually returns under fair scheduling, here for the calls made after
\* the driver has halted on a machine error.
C40_ReleaseReturns ==
    (machine.main = "release" /\ Halted) ~> (machine.main = "idle")

====
